---- MODULE Spec2Model ----
(***************************************************************************)
(* ClawTalkGateway: routing header guard, TalkStore, Slack ingress, Slack  *)
(* event proxy and event dispatcher, modelled from the TypeScript sources. *)
(*                                                                         *)
(* Strings the code inspects (trim, toLowerCase, startsWith, template      *)
(* concatenation) are sequences of one-character strings, so that these    *)
(* conversions are computed rather than assumed.  The JavaScript value     *)
(* `undefined` is the one-element sequence <<"undefined">>, which no real  *)
(* string of the model equals.                                             *)
(***************************************************************************)
EXTENDS Integers, Sequences, FiniteSets, Bags, TLC

VARIABLES
    now,            \* Date.now(), in milliseconds
    gIn, gOut,      \* routing-header guard: last call and its outcome
    talks,          \* TalkStore.talks: talk id -> TalkMeta or NoTalk
    usedIds,        \* talk ids randomUUID() has handed out so far
    received,       \* talk id -> the ChangeEvents for that Talk a change
                    \* listener was called with, in order
    fsOps,          \* bag of the file operations started and not yet finished
    dirs,           \* talk directories existing on disk
    disk,           \* talk id -> content of <dir>/talk.json, or NoFile
    history,        \* talk id -> lines of <dir>/history.jsonl
    deleted,        \* talk id -> the TalkMeta object deleteTalk removed from the
                    \* map (pending writes still hold it), or NoTalk
    seenEvents,     \* slack-ingress seenEvents: event id -> SeenDecision or NotSeen
    runtimeCounters,\* slack-ingress runtimeCountersByTalkId: talk id -> passed
    firstAns,       \* event id -> the answer of its last non-duplicate routing
    rOut,           \* result of the last routeSlackIngressEvent call
    debounceMap,    \* EventDispatcher.debounceMap: key -> lastFiredAt or NoEntry
    runningTalks,   \* EventDispatcher.runningTalks
    execJobs,       \* event jobs executing: records [talkId, jobId, startedAt]
    starts,         \* per debounce key: the times of its last two starts
    proxyReq,       \* the webhook request handled last, with its response
    forward,        \* the forwardToOpenClaw call started last
    llmCalls,       \* LLM completions started by the ingress
    slackSends,     \* Slack messages sent by the ingress
    observations,   \* tool-affinity observations.jsonl: talk id -> lines
    snapshotCache,  \* ToolAffinityStore.snapshotCache: talk id -> entry or NoSnapshot
    selection,      \* the selectTools call made last, with its result
    timeoutCall,    \* the computeAffinityTimeout call made last, with its result
    dmOut,          \* the deleteMessages call completed last, with its result
    appended,       \* talk id -> ids of the messages whose appendMessage resolved
    askedIds,       \* talk id -> ids ever passed to deleteMessages
    cleared,        \* what clearStaleProcessingFlags returned at the last init()
    hostConfig,     \* ~/.openclaw/openclaw.json: bindings and agents.list
    idText,         \* talk id -> the characters randomUUID() gave that id
    replyToEvent,   \* EventDispatcherOptions.replyToEvent is given
    replyCalls,     \* the calls of opts.replyToEvent made so far
    lastEnd,        \* talk id -> how the event job of the Talk that ended last ended
    inspected,      \* the inspectSlackOwnership call made last, with its result
    doctorOut       \* the findOpenClawSlackOwnershipConflicts call made last, with its result

affinityVars == <<observations, snapshotCache, selection, timeoutCall>>

auditVars == <<dmOut, appended, askedIds, cleared>>

hostVars == <<hostConfig, idText>>

execVars == <<replyToEvent, replyCalls, lastEnd>>

probeVars == <<inspected, doctorOut>>

vars == <<now, gIn, gOut, talks, usedIds, received, fsOps, dirs, disk, history,
          deleted, seenEvents, runtimeCounters, firstAns, rOut, debounceMap,
          runningTalks, execJobs, starts, proxyReq, forward, llmCalls, slackSends, affinityVars, hostVars, probeVars, execVars, auditVars>>

(***************************************************************************)
(* Strings                                                                 *)
(***************************************************************************)
undefined == <<"undefined">>

\* an openclaw.json without bindings and agents
\* raw: whether the text of the file is what JSON.stringify(cfg, null, 2)
\* followed by a newline gives for its content
EmptyHostConfig ==
    [bindings |-> <<>>, agents |-> <<>>, primary |-> undefined, raw |-> "other"]

SeqRange(s) == {s[i] : i \in 1..Len(s)}

UpperLetters ==
    <<"A", "B", "C", "D", "E", "F", "G", "H", "I", "J", "K", "L", "M",
      "N", "O", "P", "Q", "R", "S", "T", "U", "V", "W", "X", "Y", "Z">>

LowerLetters ==
    <<"a", "b", "c", "d", "e", "f", "g", "h", "i", "j", "k", "l", "m",
      "n", "o", "p", "q", "r", "s", "t", "u", "v", "w", "x", "y", "z">>

LowerOf == [c \in SeqRange(UpperLetters) |->
               LowerLetters[CHOOSE i \in 1..26 : UpperLetters[i] = c]]

UpperOf == [c \in SeqRange(LowerLetters) |->
               UpperLetters[CHOOSE i \in 1..26 : LowerLetters[i] = c]]

LowerChar(c) == IF c \in DOMAIN LowerOf THEN LowerOf[c] ELSE c

toLowerCase(s) == [i \in 1..Len(s) |-> LowerChar(s[i])]

UpperChar(c) == IF c \in DOMAIN UpperOf THEN UpperOf[c] ELSE c

toUpperCase(s) == [i \in 1..Len(s) |-> UpperChar(s[i])]

RECURSIVE trimStart(_)
trimStart(s) == IF s # <<>> /\ Head(s) = " " THEN trimStart(Tail(s)) ELSE s

RECURSIVE trimEnd(_)
trimEnd(s) ==
    IF s # <<>> /\ s[Len(s)] = " " THEN trimEnd(SubSeq(s, 1, Len(s) - 1)) ELSE s

trim(s) == trimEnd(trimStart(s))

startsWith(s, p) == Len(s) >= Len(p) /\ SubSeq(s, 1, Len(p)) = p

endsWith(s, p) == Len(s) >= Len(p) /\ SubSeq(s, Len(s) - Len(p) + 1, Len(s)) = p

\* string literals the code uses
STR_agent_colon == <<"a", "g", "e", "n", "t", ":">>
STR_talk_colon  == <<"t", "a", "l", "k", ":">>
STR_job_colon   == <<"j", "o", "b", ":">>

(***************************************************************************)
(* routing-headers.ts: assertRoutingHeaders                                *)
(***************************************************************************)
hasValue(value) == value # undefined /\ Len(trim(value)) > 0

assertRoutingHeaders_agentOnly(params) ==
    IF params.executionMode # "full_control" THEN "ok"
    ELSE IF hasValue(params.headers.agentId)
         THEN "ROUTING_GUARD_FORBIDDEN_AGENT_HEADER"
         ELSE "ok"

\* "ok" when the call returns, otherwise the code of the RoutingGuardError thrown
assertRoutingHeaders(params) ==
    IF params.executionMode # "full_control" THEN "ok"
    ELSE IF hasValue(params.headers.agentId)
         THEN "ROUTING_GUARD_FORBIDDEN_AGENT_HEADER"
         ELSE IF hasValue(params.headers.sessionKey)
                 /\ startsWith(trim(params.headers.sessionKey), STR_agent_colon)
              THEN "ROUTING_GUARD_FORBIDDEN_SESSION_KEY"
              ELSE "ok"

(***************************************************************************)
(* Bounds                                                                  *)
(***************************************************************************)
MaxEvents == 4      \* ChangeEvents one listener is followed for
MaxVersion == 3     \* talkVersion is followed up to this value
MaxFsOps  == 2      \* file operations in flight at once
MaxHistory == 2     \* lines kept per history.jsonl
MaxTicks == 3       \* steps of the clock the dedup table is followed for

TalkIds == {"t1", "t2"}

Max(a, b) == IF a >= b THEN a ELSE b

(***************************************************************************)
(* talk-store.ts: values                                                   *)
(***************************************************************************)
NoTalk == [none |-> TRUE]
NoFile == [nofile |-> TRUE]

\* a talk.json that writeFile has opened (and so truncated) and not yet filled
PartialFile == [partial |-> TRUE]

STR_slack    == <<"s", "l", "a", "c", "k">>
STR_Slack    == <<"S", "l", "a", "c", "k">>
STR_telegram == <<"t", "g">>
STR_C1       == <<"C", "1">>
STR_c1       == <<"c", "1">>
STR_C1pad    == <<" ", "C", "1", " ">>
STR_star     == <<"*">>
STR_hash_g   == <<"#", "g">>
STR_g        == <<"g">>
STR_acctA    == <<"A">>
STR_acctB    == <<"B">>
STR_U1       == <<"U", "1">>
STR_U2       == <<"U", "2">>

STR_read       == <<"r", "e", "a", "d">>
STR_READ_pad   == <<"R", "e", "a", "d", " ">>
STR_write      == <<"w", "r", "i", "t", "e">>
STR_read_write == <<"r", "e", "a", "d", "+", "w", "r", "i", "t", "e">>

\* raw -> PlatformPermission
normalizePermission(raw) ==
    LET value == IF raw = undefined THEN <<>> ELSE toLowerCase(trim(raw)) IN
    IF value = STR_read THEN STR_read
    ELSE IF value = STR_write THEN STR_write
    ELSE STR_read_write

normalizeEnum(raw, allowed) == IF raw \in allowed THEN raw ELSE "undef"

normalizeResponseMode(raw) == normalizeEnum(raw, {"off", "mentions", "all"})
normalizeMirrorToTalk(raw) == normalizeEnum(raw, {"off", "inbound", "full"})
normalizeTriggerPolicy(raw) ==
    normalizeEnum(raw, {"judgment", "study_entries_only", "advice_or_study"})

RECURSIVE dedupSenders(_, _)
dedupSenders(raw, seenKeys) ==
    IF raw = <<>> THEN <<>>
    ELSE LET value == trim(Head(raw))
             key == toLowerCase(value)
         IN IF value = <<>> \/ key \in seenKeys
            THEN dedupSenders(Tail(raw), seenKeys)
            ELSE <<value>> \o dedupSenders(Tail(raw), seenKeys \cup {key})

\* an absent list and an empty list are both <<>> (the code returns undefined
\* when nothing is left, and every reader treats the two alike)
normalizeAllowedSenders(raw) == dedupSenders(raw, {})

\* randomUUID() for the i-th row of one call: no two rows share it
DigitChars == <<"1", "2", "3", "4", "5", "6", "7", "8", "9">>
uuidOfRow(uuid, i) == uuid \o <<"-", DigitChars[i]>>

\* the uuid a call uses when every row it is given has an id
UUID_unused == <<"u", "0">>

hasId(row) == row.id # undefined /\ trim(row.id) # <<>>

normalizeBindingRow(row, uuid) ==
    [id |-> IF hasId(row) THEN trim(row.id) ELSE uuid,
     platform |-> trim(row.platform),
     scope |-> trim(row.scope),
     accountId |-> IF row.accountId = undefined \/ trim(row.accountId) = <<>>
                   THEN undefined ELSE trim(row.accountId),
     permission |-> normalizePermission(row.permission)]

\* normalizePlatformBindings, its randomUUID() calls answering with uuid
normalizePlatformBindingsWith(input, uuid) ==
    LET keep(row) == trim(row.platform) # <<>> /\ trim(row.scope) # <<>>
        rows == SelectSeq(input, keep)
    IN [i \in 1..Len(rows) |-> normalizeBindingRow(rows[i], uuidOfRow(uuid, i))]

normalizePlatformBindings(input) == normalizePlatformBindingsWith(input, UUID_unused)

\* typeof row.platformBindingId === 'string' ? row.platformBindingId.trim() : ''
bindingIdOf(row) ==
    IF row.platformBindingId = undefined THEN <<>> ELSE trim(row.platformBindingId)

normalizeBehaviorRow(row) ==
    [platformBindingId |-> bindingIdOf(row),
     responseMode |-> normalizeResponseMode(row.responseMode),
     mirrorToTalk |-> normalizeMirrorToTalk(row.mirrorToTalk),
     triggerPolicy |-> normalizeTriggerPolicy(row.triggerPolicy),
     allowedSenders |-> normalizeAllowedSenders(row.allowedSenders)]

normalizePlatformBehaviors_anyBinding(input, bindings) ==
    LET keep(row) ==
            /\ bindingIdOf(row) # <<>>
            /\ ~ ( normalizeResponseMode(row.responseMode) = "undef"
                   /\ normalizeMirrorToTalk(row.mirrorToTalk) = "undef"
                   /\ normalizeTriggerPolicy(row.triggerPolicy) = "undef"
                   /\ normalizeAllowedSenders(row.allowedSenders) = <<>> )
        rows == SelectSeq(input, keep)
    IN [i \in 1..Len(rows) |-> normalizeBehaviorRow(rows[i])]

normalizePlatformBehaviors(input, bindings) ==
    LET bindingIds == {bindings[i].id : i \in 1..Len(bindings)}
        keep(row) ==
            /\ bindingIdOf(row) # <<>>
            /\ bindingIdOf(row) \in bindingIds
            /\ ~ ( normalizeResponseMode(row.responseMode) = "undef"
                   /\ normalizeMirrorToTalk(row.mirrorToTalk) = "undef"
                   /\ normalizeTriggerPolicy(row.triggerPolicy) = "undef"
                   /\ normalizeAllowedSenders(row.allowedSenders) = <<>> )
        rows == SelectSeq(input, keep)
    IN [i \in 1..Len(rows) |-> normalizeBehaviorRow(rows[i])]

(***************************************************************************)
(* Inputs the callers of the store are drawn from                          *)
(***************************************************************************)
STR_b1 == <<"b", "1">>
STR_b2 == <<"b", "2">>
STR_b3 == <<"b", "3">>
STR_b4 == <<"b", "4">>
STR_b5 == <<"b", "5">>
STR_b6 == <<"b", "6">>
STR_b7 == <<"b", "7">>
STR_b8 == <<"b", "8">>
STR_b9 == <<"b", "9">>

BindingRow(id, platform, scope, accountId, permission) ==
    [id |-> id, platform |-> platform, scope |-> scope,
     accountId |-> accountId, permission |-> permission]

rowChan  == BindingRow(STR_b1, STR_slack, STR_C1pad, undefined, undefined)
rowWild  == BindingRow(STR_b2, STR_Slack, STR_star, undefined, STR_write)
rowRead  == BindingRow(STR_b3, STR_slack, STR_C1, undefined, STR_READ_pad)
rowName  == BindingRow(STR_b4, STR_slack, STR_hash_g, STR_acctA, undefined)
rowBlank == BindingRow(STR_b5, STR_slack, <<" ">>, undefined, undefined)
rowChanTg == BindingRow(STR_b9, STR_telegram, STR_c1, undefined, STR_write)

BindingInputs ==
    { <<>>, <<rowChan>>, <<rowWild>>, <<rowRead, rowName>>, <<rowBlank, rowChan>> }

BehaviorRow(bindingId, responseMode, mirrorToTalk, triggerPolicy, allowedSenders) ==
    [platformBindingId |-> bindingId, responseMode |-> responseMode,
     mirrorToTalk |-> mirrorToTalk, triggerPolicy |-> triggerPolicy,
     allowedSenders |-> allowedSenders]

BehaviorInputs ==
    { <<>>,
      << BehaviorRow(STR_b1, "undef", "inbound", "undef", <<>>) >>,
      << BehaviorRow(STR_b1, "off", "undef", "undef", <<>>) >>,
      << BehaviorRow(STR_b1, "mentions", "full", "advice_or_study", <<STR_U1>>) >>,
      << BehaviorRow(STR_b2, "bogus", "undef", "study_entries_only", <<>>) >> }

STR_on_hash_g == <<"o", "n", " ", "#", "g">>
STR_on_C1     == <<"o", "n", " ", "C", "1">>
STR_cron      == <<"0", " ", "9">>

\* snapshotCache.get(talkId) of a Talk the cache does not hold
NoSnapshot == [none |-> TRUE]

\* debounceMap.get(key) of a key the map does not hold
NoEntry == -1

JobIds == {"j1", "j2", "j3"}
JobInputs ==
    { [type |-> "event", schedule |-> STR_on_C1],
      [type |-> "event", schedule |-> STR_on_hash_g],
      [type |-> "recurring", schedule |-> STR_cron] }

MessageIds == {"m1", "m2"}
PinIds == {"m1"}

\* what the store's own specification draws its updates from
StoreBindingInputs == { <<rowChan>> }
StoreBehaviorInputs == { << BehaviorRow(STR_b1, "undef", "inbound", "undef", <<>>) >> }
StoreJobIds == {"j1"}
StoreJobInputs == { [type |-> "event", schedule |-> STR_on_C1] }

(***************************************************************************)
(* talk-store.ts: TalkStore                                                *)
(***************************************************************************)
NewTalk(id) ==
    [id |-> id, talkVersion |-> 1, platformBindings |-> <<>>,
     platformBehaviors |-> <<>>, jobs |-> <<>>, pinnedMessageIds |-> <<>>,
     processing |-> FALSE, model |-> undefined, topicTitle |-> undefined]

FsOp(kind, talkId, arg) == [kind |-> kind, talkId |-> talkId, arg |-> arg]

\* persistMeta(meta): mkdir, and once that is done writeFile of the metadata
persistMeta(ops, id) == ops (+) SetToBag({FsOp("mkdirMeta", id, NoTalk)})

InFlight(ops) == BagCardinality(ops)

RECURSIVE SumLen(_, _)
SumLen(f, ids) ==
    IF ids = {} THEN 0
    ELSE LET id == CHOOSE x \in ids : TRUE IN Len(f[id]) + SumLen(f, ids \ {id})

Emitted == SumLen(received, TalkIds)

emitChange(event) == [received EXCEPT ![event.talkId] = Append(@, event)]

ChangeEvent(type, id, version) ==
    [type |-> type, talkId |-> id, talkVersion |-> version]

bumpVersion(meta) ==
    [meta EXCEPT !.talkVersion = Max(1, meta.talkVersion + 1)]

\* touchMeta(meta, type, {skipVersionBump}): bump, persistMeta, emitChange;
\* ops are the file operations in flight when it is called
touchMetaOn(ops, meta, type, skipVersionBump) ==
    LET m == IF skipVersionBump THEN meta ELSE bumpVersion(meta) IN
    /\ Emitted < MaxEvents
    /\ InFlight(ops) < MaxFsOps
    /\ m.talkVersion <= MaxVersion
    /\ talks' = [talks EXCEPT ![meta.id] = m]
    /\ fsOps' = persistMeta(ops, meta.id)
    /\ received' = emitChange(ChangeEvent(type, meta.id, m.talkVersion))

touchMeta(meta, type, skipVersionBump) ==
    touchMetaOn(fsOps, meta, type, skipVersionBump)

StoreFrameBase == UNCHANGED <<now, gIn, gOut, seenEvents, runtimeCounters, firstAns,
                              rOut, debounceMap, runningTalks, execJobs, starts,
                              proxyReq, forward, llmCalls, slackSends, affinityVars, hostVars, probeVars, execVars,
                              cleared>>

StoreFrame == StoreFrameBase /\ UNCHANGED auditVars

\* randomUUID(): an id never handed out before; which one makes no difference
\* to the store, so they are handed out in a fixed order
freshId == IF "t1" \notin usedIds THEN "t1" ELSE "t2"

createTalk ==
    \E id \in {freshId} \ usedIds :
        /\ usedIds' = usedIds \cup {id}
        /\ touchMeta(NewTalk(id), "created", TRUE)
        /\ UNCHANGED <<dirs, disk, history, deleted>>
        /\ StoreFrame

\* updateTalk(id, {platformBindings?, platformBehaviors?}), the updates drawn
\* from the given inputs
\* randomUUID() answers with an id nobody holds: neither the Talk nor the
\* rows the caller passes mention it
freshUuid(uuid, meta, bindings, behaviors) ==
    /\ \A i \in 1..Len(meta.platformBindings) :
           ~startsWith(meta.platformBindings[i].id, uuid)
    /\ \A i \in 1..Len(meta.platformBehaviors) :
           ~startsWith(meta.platformBehaviors[i].platformBindingId, uuid)
    /\ \A i \in 1..Len(bindings) : hasId(bindings[i]) => ~startsWith(trim(bindings[i].id), uuid)
    /\ \A i \in 1..Len(behaviors) : ~startsWith(bindingIdOf(behaviors[i]), uuid)

updateTalkWith(bindingInputs, behaviorInputs, uuids) ==
    \E id \in TalkIds, setBindings, setBehaviors \in BOOLEAN,
       bindings \in bindingInputs \cup {<<>>}, behaviors \in behaviorInputs \cup {<<>>},
       uuid \in uuids :
        /\ talks[id] # NoTalk
        /\ setBindings \/ bindings = <<>>
        /\ setBehaviors \/ behaviors = <<>>
        /\ freshUuid(uuid, talks[id], bindings, behaviors)
        /\ LET meta == talks[id]
               m1 == IF setBindings
                     THEN [meta EXCEPT
                            !.platformBindings = normalizePlatformBindingsWith(bindings, uuid),
                            !.platformBehaviors =
                                normalizePlatformBehaviors(meta.platformBehaviors,
                                    normalizePlatformBindingsWith(bindings, uuid))]
                     ELSE meta
               m2 == IF setBehaviors
                     THEN [m1 EXCEPT !.platformBehaviors =
                            normalizePlatformBehaviors(behaviors, m1.platformBindings)]
                     ELSE m1
           IN touchMeta(m2, "updated", FALSE)
        /\ UNCHANGED <<usedIds, dirs, disk, history, deleted>>
        /\ StoreFrame

updateTalk(bindingInputs, behaviorInputs) ==
    updateTalkWith(bindingInputs, behaviorInputs, {UUID_unused})

\* setPlatformBindings: throws for an unknown Talk
setPlatformBindingsWith(bindingInputs, uuids) ==
    \E id \in TalkIds, bindings \in bindingInputs, uuid \in uuids :
        /\ talks[id] # NoTalk
        /\ freshUuid(uuid, talks[id], bindings, <<>>)
        /\ LET meta == talks[id]
               normalized == normalizePlatformBindingsWith(bindings, uuid)
           IN touchMeta([meta EXCEPT
                           !.platformBindings = normalized,
                           !.platformBehaviors =
                               normalizePlatformBehaviors(meta.platformBehaviors, normalized)],
                        "bindings_set", FALSE)
        /\ UNCHANGED <<usedIds, dirs, disk, history, deleted>>
        /\ StoreFrame

\* setPlatformBehaviors: throws for an unknown Talk
setPlatformBehaviorsOf(behaviorInputs) ==
    \E id \in TalkIds, behaviors \in behaviorInputs :
        /\ talks[id] # NoTalk
        /\ LET meta == talks[id]
           IN touchMeta([meta EXCEPT
                           !.platformBehaviors =
                               normalizePlatformBehaviors(behaviors, meta.platformBindings)],
                        "behaviors_set", FALSE)
        /\ UNCHANGED <<usedIds, dirs, disk, history, deleted>>
        /\ StoreFrame

deletedVersion_same(existing) == existing.talkVersion

\* the talkVersion deleteTalk puts on its 'deleted' event
deletedVersion(existing) == existing.talkVersion + 1

deleteTalk ==
    \E id \in TalkIds :
        /\ talks[id] # NoTalk
        /\ Emitted < MaxEvents
        /\ InFlight(fsOps) < MaxFsOps
        /\ deletedVersion(talks[id]) <= MaxVersion + 1
        /\ talks' = [talks EXCEPT ![id] = NoTalk]
        /\ received' = emitChange(ChangeEvent("deleted", id, deletedVersion(talks[id])))
        /\ fsOps' = fsOps (+) SetToBag({FsOp("rm", id, NoTalk)})
        /\ deleted' = [deleted EXCEPT ![id] = talks[id]]
        /\ UNCHANGED <<usedIds, dirs, disk, history>>
        /\ StoreFrame

\* setProcessing: persisted, but neither a version bump nor a ChangeEvent
setProcessing ==
    \E id \in TalkIds, processing \in BOOLEAN :
        /\ talks[id] # NoTalk
        /\ talks[id].processing # processing
        /\ InFlight(fsOps) < MaxFsOps
        /\ talks' = [talks EXCEPT ![id].processing = processing]
        /\ fsOps' = persistMeta(fsOps, id)
        /\ UNCHANGED <<usedIds, received, dirs, disk, history, deleted>>
        /\ StoreFrame


RemoveAt(s, i) == SubSeq(s, 1, i - 1) \o SubSeq(s, i + 1, Len(s))

addPin ==
    \E id \in TalkIds, messageId \in PinIds :
        /\ talks[id] # NoTalk
        /\ messageId \notin SeqRange(talks[id].pinnedMessageIds)
        /\ touchMeta([talks[id] EXCEPT !.pinnedMessageIds = Append(@, messageId)],
                     "pin_added", FALSE)
        /\ UNCHANGED <<usedIds, dirs, disk, history, deleted>>
        /\ StoreFrame

removePin ==
    \E id \in TalkIds, messageId \in PinIds :
        /\ talks[id] # NoTalk
        /\ messageId \in SeqRange(talks[id].pinnedMessageIds)
        /\ LET pins == talks[id].pinnedMessageIds
               idx == CHOOSE i \in 1..Len(pins) : pins[i] = messageId
           IN touchMeta([talks[id] EXCEPT !.pinnedMessageIds = RemoveAt(pins, idx)],
                        "pin_removed", FALSE)
        /\ UNCHANGED <<usedIds, dirs, disk, history, deleted>>
        /\ StoreFrame

AllJobIds == UNION { {talks[t].jobs[i].id : i \in 1..Len(talks[t].jobs)} :
                     t \in {u \in TalkIds : talks[u] # NoTalk} }

addJob(jobIds, jobInputs) ==
    \E id \in TalkIds, jobId \in jobIds, input \in jobInputs :
        /\ talks[id] # NoTalk
        /\ jobId \notin AllJobIds       \* randomUUID()
        /\ LET job == [id |-> jobId, type |-> input.type,
                       schedule |-> input.schedule, active |-> TRUE]
           IN touchMeta([talks[id] EXCEPT !.jobs = Append(@, job)], "job_added", FALSE)
        /\ UNCHANGED <<usedIds, dirs, disk, history, deleted>>
        /\ StoreFrame

updateJob ==
    \E id \in TalkIds, jobId \in JobIds, active \in BOOLEAN :
        /\ talks[id] # NoTalk
        /\ \E i \in 1..Len(talks[id].jobs) :
              /\ talks[id].jobs[i].id = jobId
              /\ touchMeta([talks[id] EXCEPT !.jobs[i].active = active],
                           "job_updated", FALSE)
        /\ UNCHANGED <<usedIds, dirs, disk, history, deleted>>
        /\ StoreFrame

deleteJob ==
    \E id \in TalkIds, jobId \in JobIds :
        /\ talks[id] # NoTalk
        /\ \E i \in 1..Len(talks[id].jobs) :
              /\ talks[id].jobs[i].id = jobId
              /\ touchMeta([talks[id] EXCEPT !.jobs = RemoveAt(@, i)],
                           "job_deleted", FALSE)
        /\ UNCHANGED <<usedIds, dirs, disk, history, deleted>>
        /\ StoreFrame

\* appendMessage up to its first await: mkdir of the talk directory is started
appendMessageStart(id, msg) ==
    /\ InFlight(fsOps) < MaxFsOps
    /\ fsOps' = fsOps (+) SetToBag({FsOp("mkdirAppend", id, [msg |-> msg])})

TalkMessage(id, role, content) == [id |-> id, role |-> role, content |-> content]

appendMessage ==
    \E id \in TalkIds, msg \in {TalkMessage(m, "user", [text |-> "text"]) : m \in PinIds} :
        /\ id \in usedIds
        /\ Len(history[id]) < MaxHistory
        /\ appendMessageStart(id, msg)
        /\ UNCHANGED <<talks, usedIds, received, dirs, disk, history, deleted>>
        /\ StoreFrame

(***************************************************************************)
(* The file system: an operation in flight completes at any time, in any   *)
(* order with the others; the continuation awaiting it runs with it.       *)
(***************************************************************************)
\* the object a persistMeta closure holds: the Talk in the map, or the one
\* deleteTalk removed from it
metaObject(id) == IF talks[id] # NoTalk THEN talks[id] ELSE deleted[id]

Done(ops, op) == ops (-) SetToBag({op})

Replaced(ops, op, by) == (ops (-) SetToBag({op})) (+) SetToBag({by})

\* fsp.mkdir(dir, {recursive}) of persistMeta is done; .then serialises the
\* metadata as it is now and starts writeFile(talk.json)
FsMkdirMeta ==
    \E op \in BagToSet(fsOps) :
        /\ op.kind = "mkdirMeta"
        /\ dirs' = dirs \cup {op.talkId}
        /\ fsOps' = Replaced(fsOps, op, FsOp("writeMeta", op.talkId, metaObject(op.talkId)))
        /\ UNCHANGED <<talks, usedIds, received, disk, history, deleted>>
        /\ StoreFrame

\* writeFile(talk.json) is done: written, or ENOENT when the directory is gone
FsWriteMeta ==
    \E op \in BagToSet(fsOps) :
        /\ op.kind = "writeMeta"
        /\ disk' = IF op.talkId \in dirs
                   THEN [disk EXCEPT ![op.talkId] = op.arg]
                   ELSE disk
        /\ fsOps' = Done(fsOps, op)
        /\ UNCHANGED <<talks, usedIds, received, dirs, history, deleted>>
        /\ StoreFrame

\* fsp.rm(talkDir, {recursive, force}) of deleteTalk is done
FsRm ==
    \E op \in BagToSet(fsOps) :
        /\ op.kind = "rm"
        /\ dirs' = dirs \ {op.talkId}
        /\ disk' = [disk EXCEPT ![op.talkId] = NoFile]
        /\ history' = [history EXCEPT ![op.talkId] = <<>>]
        /\ fsOps' = Done(fsOps, op)
        /\ UNCHANGED <<talks, usedIds, received, deleted>>
        /\ StoreFrame

\* mkdir of appendMessage is done; appendFile(history.jsonl) is started
FsMkdirAppend ==
    \E op \in BagToSet(fsOps) :
        /\ op.kind = "mkdirAppend"
        /\ dirs' = dirs \cup {op.talkId}
        /\ fsOps' = Replaced(fsOps, op, FsOp("appendFile", op.talkId, op.arg))
        /\ UNCHANGED <<talks, usedIds, received, disk, history, deleted>>
        /\ StoreFrame

\* appendFile is done; on success appendMessage touches the Talk if it is
\* still in the map, on ENOENT the promise rejects
FsAppendFile ==
    \E op \in BagToSet(fsOps) :
        /\ op.kind = "appendFile"
        /\ LET id == op.talkId
               rest == Done(fsOps, op)
           IN IF id \in dirs
              THEN /\ history' = [history EXCEPT ![id] = Append(@, op.arg.msg)]
                   /\ appended' = [appended EXCEPT ![id] = Append(@, op.arg.msg.id)]
                   /\ IF talks[id] # NoTalk
                      THEN touchMetaOn(rest, talks[id], "message_appended", FALSE)
                      ELSE /\ fsOps' = rest
                           /\ UNCHANGED <<talks, received>>
              ELSE /\ fsOps' = rest
                   /\ UNCHANGED <<talks, received, history, appended>>
        /\ UNCHANGED <<usedIds, dirs, disk, deleted, dmOut, askedIds>>
        /\ StoreFrameBase

\* loadAllAsync: what one talk.json becomes in memory
loadMeta(raw) ==
    LET bindings == normalizePlatformBindings(raw.platformBindings)
        keepJob(job) == trim(job.schedule) # <<>>
    IN [raw EXCEPT
          !.jobs = SelectSeq(raw.jobs, keepJob),
          !.platformBindings = bindings,
          !.platformBehaviors = normalizePlatformBehaviors(raw.platformBehaviors, bindings),
          !.talkVersion = Max(1, raw.talkVersion)]

loadAllAsync ==
    [id \in TalkIds |->
        IF id \in dirs /\ disk[id] # NoFile /\ disk[id] # PartialFile
        THEN loadMeta(disk[id]) ELSE NoTalk]

RECURSIVE persistEach(_, _)
persistEach(ops, ids) ==
    IF ids = {} THEN ops
    ELSE LET id == CHOOSE x \in ids : TRUE
         IN persistEach(persistMeta(ops, id), ids \ {id})

\* buildEventIdFromSlack: slack:<accountId>:<channelId>:<ts>
BuiltEventId(accountId, channelId, ts) == <<"slack", accountId, channelId, ts>>

\* buildEventId: ['slack', accountId, channelId, ts, userId].join(':')
JoinedEventId(accountId, channelId, ts, userId) ==
    <<"slack", accountId, channelId, ts, userId>>

EventIds ==
    { BuiltEventId(a, <<"C", "1">>, "1.1") : a \in {<<"d", "e", "f", "a", "u", "l", "t">>, <<"a">>} }
    \cup
    { JoinedEventId(<<"a">>, <<"C", "1">>, "1.1", STR_U1),
      JoinedEventId(<<"d", "e", "f", "a", "u", "l", "t">>, <<"C", "1">>, "1.1", STR_U1),
      JoinedEventId(<<"a">>, <<"C", "1">>, "1", <<"u", "n", "k", "n", "o", "w", "n">>),
      JoinedEventId(<<"a">>, <<"C", "1">>, "unknown", STR_U1) }

EmptySeen == [e \in EventIds |-> [none |-> TRUE]]

\* The process stops (file operations in flight are lost with it) and a new
\* one runs init(): ensureDir, loadAllAsync, clearStaleProcessingFlags.
\* The listeners, seenEvents, the counters and the dispatcher start empty.
\* clearStaleProcessingFlags: the Talks whose flag it clears
staleProcessing_none(loaded) == {}

staleProcessing(loaded) ==
    {id \in TalkIds : loaded[id] # NoTalk /\ loaded[id].processing}

Restart ==
    LET loaded == loadAllAsync
        stale == staleProcessing(loaded)
    IN /\ talks' = [id \in TalkIds |->
                      IF id \in stale THEN [loaded[id] EXCEPT !.processing = FALSE]
                      ELSE loaded[id]]
       /\ fsOps' = persistEach(EmptyBag, stale)
       /\ cleared' = Cardinality(stale)
       /\ received' = [id \in TalkIds |-> <<>>]
       /\ seenEvents' = EmptySeen
       /\ runtimeCounters' = [id \in TalkIds |-> 0]
       /\ debounceMap' = [k \in DOMAIN debounceMap |-> NoEntry]
       /\ runningTalks' = {}
       /\ execJobs' = {}
       /\ UNCHANGED <<usedIds, dirs, disk, history, deleted>>
       /\ snapshotCache' = [id \in TalkIds |-> NoSnapshot]
       /\ UNCHANGED <<now, gIn, gOut, firstAns, rOut, starts, proxyReq, forward,
                      llmCalls, slackSends, observations, selection, timeoutCall, hostVars, probeVars,
                      execVars, dmOut, appended, askedIds>>

StoreInit ==
    /\ talks = [id \in TalkIds |-> NoTalk]
    /\ usedIds = {}
    /\ received = [id \in TalkIds |-> <<>>]
    /\ fsOps = EmptyBag
    /\ dirs = {}
    /\ disk = [id \in TalkIds |-> NoFile]
    /\ history = [id \in TalkIds |-> <<>>]
    /\ deleted = [id \in TalkIds |-> NoTalk]

\* the ids followed: the first group of a UUID and the digit after it
UUID_8fabc85a_1 == <<"8", "f", "a", "b", "c", "8", "5", "a", "-", "1">>
UUID_8fabc85a_2 == <<"8", "f", "a", "b", "c", "8", "5", "a", "-", "2">>
UUID_3d2e1f00_1 == <<"3", "d", "2", "e", "1", "f", "0", "0", "-", "1">>

IdTextDefault == [id \in TalkIds |-> IF id = "t1" THEN UUID_8fabc85a_1 ELSE UUID_3d2e1f00_1]

\* randomUUID() never gives one id twice; two ids may begin alike
IdTextInputs ==
    { IdTextDefault,
      [id \in TalkIds |-> IF id = "t1" THEN UUID_8fabc85a_1 ELSE UUID_8fabc85a_2] }

RestInit ==
    /\ replyCalls = {}
    /\ lastEnd = [id \in TalkIds |-> "none"]
    /\ now = 0
    /\ gIn = [none |-> TRUE]
    /\ gOut = "none"
    /\ seenEvents = EmptySeen
    /\ runtimeCounters = [id \in TalkIds |-> 0]
    /\ firstAns = EmptySeen
    /\ rOut = [none |-> TRUE]
    /\ debounceMap = [k \in TalkIds \X JobIds |-> NoEntry]
    /\ runningTalks = {}
    /\ execJobs = {}
    /\ starts = [k \in TalkIds \X JobIds |-> <<>>]
    /\ proxyReq = [none |-> TRUE]
    /\ forward = [none |-> TRUE]
    /\ llmCalls = 0
    /\ slackSends = 0
    /\ observations = [id \in TalkIds |-> <<>>]
    /\ snapshotCache = [id \in TalkIds |-> NoSnapshot]
    /\ selection = [none |-> TRUE]
    /\ timeoutCall = [none |-> TRUE]
    /\ inspected = [none |-> TRUE]
    /\ doctorOut = [none |-> TRUE]
    /\ dmOut = [none |-> TRUE]
    /\ appended = [id \in TalkIds |-> <<>>]
    /\ askedIds = [id \in TalkIds |-> {}]
    /\ cleared = 0
    /\ hostConfig = EmptyHostConfig

OtherInit ==
    /\ idText = IdTextDefault
    /\ replyToEvent = TRUE
    /\ RestInit

Init == StoreInit /\ OtherInit

StoreUpdateTalk == updateTalk(StoreBindingInputs, StoreBehaviorInputs)
StoreAddJob == addJob(StoreJobIds, StoreJobInputs)

NextStore ==
    \/ createTalk \/ StoreUpdateTalk \/ deleteTalk
    \/ addPin \/ removePin \/ StoreAddJob \/ updateJob \/ deleteJob
    \/ appendMessage
    \/ FsMkdirMeta \/ FsWriteMeta \/ FsRm \/ FsMkdirAppend \/ FsAppendFile

SpecStore == Init /\ [][NextStore]_vars

\* persistMeta's writeFile(talk.json) followed step by step: the file is
\* opened for writing, which truncates it, and then filled
FsOpenMeta ==
    \E op \in BagToSet(fsOps) :
        /\ op.kind = "writeMeta"
        /\ disk' = IF op.talkId \in dirs
                   THEN [disk EXCEPT ![op.talkId] = PartialFile]
                   ELSE disk
        /\ fsOps' = IF op.talkId \in dirs
                    THEN Replaced(fsOps, op, FsOp("fillMeta", op.talkId, op.arg))
                    ELSE Done(fsOps, op)
        /\ UNCHANGED <<talks, usedIds, received, dirs, history, deleted>>
        /\ StoreFrame

FsFillMeta ==
    \E op \in BagToSet(fsOps) :
        /\ op.kind = "fillMeta"
        /\ disk' = [disk EXCEPT ![op.talkId] = op.arg]
        /\ fsOps' = Done(fsOps, op)
        /\ UNCHANGED <<talks, usedIds, received, dirs, history, deleted>>
        /\ StoreFrame

\* one Talk loaded from its talk.json, and room for a second one
PersistInit ==
    /\ talks = [id \in TalkIds |-> IF id = "t1" THEN NewTalk(id) ELSE NoTalk]
    /\ usedIds = {"t1"}
    /\ received = [id \in TalkIds |-> <<>>]
    /\ fsOps = EmptyBag
    /\ dirs = {"t1"}
    /\ disk = [id \in TalkIds |-> IF id = "t1" THEN NewTalk(id) ELSE NoFile]
    /\ history = [id \in TalkIds |-> <<>>]
    /\ deleted = [id \in TalkIds |-> NoTalk]
    /\ OtherInit

NextPersist ==
    \/ createTalk \/ addPin \/ removePin
    \/ FsMkdirMeta \/ FsOpenMeta \/ FsFillMeta
    \/ Restart

SpecPersist == PersistInit /\ [][NextPersist]_vars

\* a store just constructed over the talks directory an earlier process left:
\* talk.json of t1, and of t2 if there is one, with whatever processing flag
\* that process persisted last
RecoverInit ==
    \E p1, p2 \in BOOLEAN, second \in BOOLEAN :
        /\ talks = [id \in TalkIds |-> NoTalk]
        /\ usedIds = IF second THEN {"t1", "t2"} ELSE {"t1"}
        /\ received = [id \in TalkIds |-> <<>>]
        /\ fsOps = EmptyBag
        /\ dirs = usedIds
        /\ disk = [id \in TalkIds |->
                      IF id \in usedIds
                      THEN [NewTalk(id) EXCEPT !.processing = IF id = "t1" THEN p1 ELSE p2]
                      ELSE NoFile]
        /\ history = [id \in TalkIds |-> <<>>]
        /\ deleted = [id \in TalkIds |-> NoTalk]
        /\ OtherInit

NextRecover ==
    \/ Restart \/ setProcessing
    \/ FsMkdirMeta \/ FsOpenMeta \/ FsFillMeta

SpecRecover == RecoverInit /\ [][NextRecover]_vars

(***************************************************************************)
(* The store over bindings and behaviors as callers and files give them    *)
(***************************************************************************)
STR_b1_pad == <<" ", "b", "1", " ">>
STR_b2_pad == <<" ", "b", "2">>
UUID_u1 == <<"u", "1">>
UUID_u2 == <<"u", "2">>
BindingUuids == {UUID_u1, UUID_u2}

rowPadId == BindingRow(STR_b1_pad, STR_slack, STR_C1, undefined, undefined)
rowNoId  == BindingRow(undefined, STR_slack, STR_C1, undefined, STR_write)

BehaviorBindingInputs == { <<>>, <<rowPadId, rowWild>>, <<rowNoId>> }

\* what a talk.json may hold: rows with and without scope, none without id
DiskBindingInputs == { <<>>, <<rowChan>>, <<rowPadId, rowWild>>, <<rowBlank>> }

behB1       == BehaviorRow(STR_b1, "off", "undef", "undef", <<>>)
behPadB2    == BehaviorRow(STR_b2_pad, "all", "inbound", "undef", <<>>)
behDangling == BehaviorRow(STR_b3, "mentions", "undef", "undef", <<>>)
behNoId     == BehaviorRow(undefined, "all", "undef", "undef", <<>>)
behOfUuid   == BehaviorRow(uuidOfRow(UUID_u1, 1), "all", "undef", "undef", <<>>)

BehaviorSetInputs == { <<behB1, behPadB2>>, <<behDangling, behB1>>, <<behOfUuid>> }

DiskBehaviorInputs == { <<>>, <<behB1, behPadB2>>, <<behDangling, behB1>>, <<behNoId>> }

\* a store just constructed over a talk.json that holds any of these rows
BehaviorsInit ==
    \E bindings \in DiskBindingInputs, behaviors \in DiskBehaviorInputs :
        /\ talks = [id \in TalkIds |-> NoTalk]
        /\ usedIds = {"t1"}
        /\ received = [id \in TalkIds |-> <<>>]
        /\ fsOps = EmptyBag
        /\ dirs = {"t1"}
        /\ disk = [id \in TalkIds |->
                      IF id = "t1"
                      THEN [NewTalk(id) EXCEPT !.platformBindings = bindings,
                                               !.platformBehaviors = behaviors]
                      ELSE NoFile]
        /\ history = [id \in TalkIds |-> <<>>]
        /\ deleted = [id \in TalkIds |-> NoTalk]
        /\ OtherInit

\* updateTalk is given bindings and behaviors in one call
BehaviorsUpdateTalk ==
    updateTalkWith({ <<rowPadId, rowWild>> }, { <<behB1, behPadB2>>, <<behDangling, behB1>> },
                   {UUID_unused})

setPlatformBindings == setPlatformBindingsWith(BehaviorBindingInputs, BindingUuids)

setPlatformBehaviors == setPlatformBehaviorsOf(BehaviorSetInputs)

NextBehaviors ==
    \/ Restart \/ BehaviorsUpdateTalk \/ setPlatformBindings \/ setPlatformBehaviors
    \/ FsMkdirMeta \/ FsWriteMeta

SpecBehaviors == BehaviorsInit /\ [][NextBehaviors]_vars

BindingIdsOf(meta) == {meta.platformBindings[i].id : i \in 1..Len(meta.platformBindings)}

\* C30: in every state reachable through load, updateTalk,
\* setPlatformBindings and setPlatformBehaviors, every Behavior's
\* platformBindingId is the id of a binding of the same Talk; replacing the
\* bindings drops every Behavior whose binding no longer exists.
C30_BehaviorsReferToBindings ==
    \A id \in TalkIds :
        talks[id] # NoTalk
            => \A i \in 1..Len(talks[id].platformBehaviors) :
                   talks[id].platformBehaviors[i].platformBindingId
                       \in BindingIdsOf(talks[id])

LastEventOf(id) == received[id][Len(received[id])]

\* talk.json holds the Talk as the store wrote it one version ago, with a
\* Behavior; setPlatformBindings then replaced the bindings and the Behavior
\* is gone with its binding
C30_Witness ==
    /\ talks["t1"] # NoTalk
    /\ disk["t1"] # NoFile /\ disk["t1"] # PartialFile
    /\ disk["t1"].talkVersion >= 2
    /\ disk["t1"].platformBehaviors # <<>>
    /\ talks["t1"].talkVersion = disk["t1"].talkVersion + 1
    /\ received["t1"] # <<>> /\ LastEventOf("t1").type = "bindings_set"
    /\ talks["t1"].platformBindings # <<>>
    /\ talks["t1"].platformBehaviors = <<>>

\* a Behavior given with a padded binding id is kept under the trimmed id
C30_WitnessKept ==
    /\ talks["t1"] # NoTalk
    /\ \E i \in 1..Len(talks["t1"].platformBehaviors) :
           talks["t1"].platformBehaviors[i].platformBindingId = STR_b2

\* C19: at every instant, a crash in the middle of a write included, the
\* talk.json of a Talk is a complete metadata document (the previous one or
\* the new one), never a partial one.
C19_TalkJsonAlwaysComplete ==
    \A id \in TalkIds : disk[id] # PartialFile

\* what a crash in the middle of the write leaves: the process that starts
\* next finds a partial talk.json and does not load the Talk
C19_LostAfterCrash ==
    /\ disk["t1"] = PartialFile
    /\ fsOps = EmptyBag
    /\ talks["t1"] = NoTalk

(***************************************************************************)
(* slack-ingress.ts                                                        *)
(***************************************************************************)
EVENT_TTL_MS == 6 * 60 * 60000

STR_default       == <<"d", "e", "f", "a", "u", "l", "t">>
STR_all           == <<"a", "l", "l">>
STR_slack_colon   == <<"s", "l", "a", "c", "k", ":">>
STR_channel_colon == <<"c", "h", "a", "n", "n", "e", "l", ":">>
STR_user_colon    == <<"u", "s", "e", "r", ":">>
STR_hash          == <<"#">>

NotSeen == [none |-> TRUE]

\* message texts, and what the three regular-expression tests say of each
Texts == {"hello", "<@U1> hello", "studied 2h of math", "can you help"}

messageLooksLikeMention(text) == text = "<@U1> hello"
looksLikeStudyEntry(text) == text = "studied 2h of math"
looksLikeAdviceRequest(text) == text = "can you help"

resolveMessageIntent(text) ==
    IF looksLikeStudyEntry(text) THEN "study"
    ELSE IF looksLikeAdviceRequest(text) THEN "advice"
    ELSE "other"

AlnumChars == {"a", "c", "g", "s", "u", "A", "C", "G", "S", "U", "1", "2"}

IsAlnum(s) == s # <<>> /\ \A i \in 1..Len(s) : s[i] \in AlnumChars

Drop(s, n) == SubSeq(s, n + 1, Len(s))

normalizeTarget(value) ==
    IF value = undefined \/ trim(value) = <<>> THEN undefined
    ELSE LET trimmed == trim(value)
             lower == toLowerCase(trimmed)
             rest == IF startsWith(lower, STR_slack_colon) THEN Drop(trimmed, 6) ELSE trimmed
             restLower == toLowerCase(rest)
             kind == IF startsWith(restLower, STR_channel_colon) THEN STR_channel_colon
                     ELSE IF startsWith(restLower, STR_user_colon) THEN STR_user_colon
                     ELSE <<>>
         IN IF kind # <<>> /\ Len(rest) > Len(kind)
            THEN LET rawId == trim(Drop(rest, Len(kind)))
                 IN IF rawId = <<>> THEN undefined ELSE kind \o toLowerCase(rawId)
            ELSE IF IsAlnum(rest)
                 THEN (IF LowerChar(rest[1]) = "u" THEN STR_user_colon ELSE STR_channel_colon)
                      \o toLowerCase(rest)
                 ELSE lower

buildDefaultOutboundTarget(channelId) == STR_channel_colon \o channelId

normalizeScope(scope) == toLowerCase(trim(scope))

normalizeAccountId(value) ==
    toLowerCase(trim(IF value = undefined THEN STR_default ELSE value))

normalizeChannelName(value) ==
    IF value = undefined \/ value = <<>> THEN undefined
    ELSE LET t == trim(value)
             normalized == toLowerCase(IF t # <<>> /\ t[1] = "#" THEN Tail(t) ELSE t)
         IN IF normalized = <<>> THEN undefined ELSE normalized

canWrite_any(permission) == TRUE

canWrite(permission) ==
    LET normalized == toLowerCase(trim(IF permission = undefined
                                       THEN STR_read_write ELSE permission))
    IN normalized = STR_write \/ normalized = STR_read_write

Truthy(value) == value # undefined /\ value # <<>>

\* scoreSlackBinding once binding and event have been normalised
scoreNormalized(platform, writable, bindingAccountId, explicitEventAccountId, scope, channelId, channelName, outboundTarget) ==
    IF platform # STR_slack THEN -1
    ELSE IF ~writable THEN -1
    ELSE IF Truthy(bindingAccountId) /\ Truthy(explicitEventAccountId)
            /\ bindingAccountId # explicitEventAccountId
         THEN -1
    ELSE IF scope = <<>> THEN -1
    ELSE IF scope = STR_star \/ scope = STR_all \/ scope = STR_slack_colon \o STR_star
         THEN 10
    ELSE IF \/ scope = channelId
            \/ scope = STR_channel_colon \o channelId
            \/ scope = STR_user_colon \o channelId
            \/ scope = STR_slack_colon \o channelId
         THEN 100
    ELSE IF Truthy(outboundTarget)
            /\ (scope = outboundTarget \/ scope = STR_slack_colon \o outboundTarget)
         THEN 95
    ELSE IF channelName # undefined
            /\ (scope = STR_hash \o channelName \/ scope = channelName)
         THEN 90
    ELSE IF channelName # undefined
            /\ endsWith(scope, <<" ">> \o STR_hash \o channelName)
         THEN 80
    ELSE -1

explicitAccountId(value) ==
    IF value # undefined /\ trim(value) # <<>> THEN normalizeAccountId(value)
    ELSE undefined

scoreSlackBinding(binding, event) ==
    scoreNormalized(toLowerCase(trim(binding.platform)),
                    canWrite(binding.permission),
                    explicitAccountId(binding.accountId),
                    explicitAccountId(event.accountId),
                    normalizeScope(binding.scope),
                    toLowerCase(trim(event.channelId)),
                    normalizeChannelName(event.channelName),
                    normalizeTarget(event.outboundTarget))

\* the inner loop of resolveOwnerTalk: index of the Talk's best binding (the
\* first with the highest score), 0 when none scores 0 or more
RECURSIVE bestBindingFrom(_, _, _, _, _)
bestBindingFrom(bindings, event, i, talkScore, talkBest) ==
    IF i > Len(bindings) THEN [score |-> talkScore, index |-> talkBest]
    ELSE LET score == scoreSlackBinding(bindings[i], event)
         IN IF score > talkScore
            THEN bestBindingFrom(bindings, event, i + 1, score, i)
            ELSE bestBindingFrom(bindings, event, i + 1, talkScore, talkBest)

bestBinding(meta, event) == bestBindingFrom(meta.platformBindings, event, 1, -1, 0)

listTalks(store) == {id \in TalkIds : store[id] # NoTalk}

SetMax(S) == CHOOSE x \in S : \A y \in S : y <= x

ownerOf_first(best, store) ==
    LET scored == {id \in DOMAIN best : best[id].score >= 0}
        bestScore == SetMax({best[id].score : id \in scored})
        candidates == {id \in scored : best[id].score = bestScore}
    IN IF scored = {}
       THEN [talkId |-> "undefined", reason |-> "no-binding", binding |-> NoTalk]
       ELSE LET id == CHOOSE x \in candidates : TRUE
            IN [talkId |-> id, reason |-> "undefined",
                binding |-> store[id].platformBindings[best[id].index]]

\* resolveOwnerTalk once every Talk's best binding is known
ownerOf(best, store) ==
    LET scored == {id \in DOMAIN best : best[id].score >= 0}
        bestScore == SetMax({best[id].score : id \in scored})
        candidates == {id \in scored : best[id].score = bestScore}
    IN IF scored = {}
       THEN [talkId |-> "undefined", reason |-> "no-binding", binding |-> NoTalk]
       ELSE IF Cardinality(candidates) > 1
       THEN [talkId |-> "undefined", reason |-> "ambiguous-binding", binding |-> NoTalk]
       ELSE LET id == CHOOSE x \in candidates : TRUE
            IN [talkId |-> id, reason |-> "undefined",
                binding |-> store[id].platformBindings[best[id].index]]

resolveOwnerTalk(store, event) ==
    ownerOf([id \in listTalks(store) |-> bestBinding(store[id], event)], store)

\* resolveBehaviorForBinding: the first Behavior row of the binding, or NoTalk
resolveBehaviorForBinding(meta, bindingId) ==
    LET rows == meta.platformBehaviors
        idx == {i \in 1..Len(rows) : rows[i].platformBindingId = bindingId}
    IN IF idx = {} THEN NoTalk
       ELSE rows[CHOOSE i \in idx : \A j \in idx : i <= j]

senderAllowed(behavior, event) ==
    LET allowed == behavior.allowedSenders
        keys == {toLowerCase(trim(allowed[i])) : i \in 1..Len(allowed)} \ {<<>>}
        candidates ==
            { toLowerCase(trim(v)) : v \in {event.userName, event.userId} \ {undefined} }
                \ {<<>>}
    IN IF allowed = <<>> \/ keys = {} THEN TRUE
       ELSE candidates \cap keys # {}

gateOf_modeFirst(behavior, event) ==
    LET responseMode == IF behavior.responseMode = "undef" THEN "all"
                        ELSE behavior.responseMode
    IN IF behavior = NoTalk
       THEN [handle |-> TRUE, reason |-> "undefined", mirrorToTalk |-> "undef"]
       ELSE IF responseMode = "off"
       THEN [handle |-> FALSE, reason |-> "on-message-disabled", mirrorToTalk |-> "undef"]
       ELSE IF ~senderAllowed(behavior, event)
       THEN [handle |-> FALSE, reason |-> "sender-not-allowed", mirrorToTalk |-> "undef"]
       ELSE [handle |-> TRUE, reason |-> "undefined", mirrorToTalk |-> behavior.mirrorToTalk]

\* shouldHandleViaBehavior once the Behavior of the binding is resolved
gateOf(behavior, event) ==
    LET responseMode == IF behavior.responseMode = "undef" THEN "all"
                        ELSE behavior.responseMode
        intent == resolveMessageIntent(event.text)
        triggerPolicy == IF behavior.triggerPolicy = "undef" THEN "judgment"
                         ELSE behavior.triggerPolicy
    IN IF behavior = NoTalk
       THEN [handle |-> TRUE, reason |-> "undefined", mirrorToTalk |-> "undef"]
       ELSE IF ~senderAllowed(behavior, event)
       THEN [handle |-> FALSE, reason |-> "sender-not-allowed", mirrorToTalk |-> "undef"]
       ELSE IF responseMode = "off"
       THEN [handle |-> FALSE, reason |-> "on-message-disabled", mirrorToTalk |-> "undef"]
       ELSE IF responseMode = "mentions" /\ ~messageLooksLikeMention(event.text)
       THEN [handle |-> FALSE, reason |-> "mention-required", mirrorToTalk |-> "undef"]
       ELSE IF triggerPolicy = "study_entries_only" /\ intent # "study"
       THEN [handle |-> FALSE, reason |-> "trigger-policy-no-match", mirrorToTalk |-> "undef"]
       ELSE IF triggerPolicy = "advice_or_study" /\ intent = "other"
       THEN [handle |-> FALSE, reason |-> "trigger-policy-no-match", mirrorToTalk |-> "undef"]
       ELSE [handle |-> TRUE, reason |-> "undefined", mirrorToTalk |-> behavior.mirrorToTalk]

shouldHandleViaBehavior(meta, bindingId, event) ==
    gateOf(resolveBehaviorForBinding(meta, bindingId), event)

Ownership(decision, talkId, reason, bindingId, mirrorToTalk) ==
    [decision |-> decision, talkId |-> talkId, reason |-> reason,
     bindingId |-> bindingId, behaviorMirrorToTalk |-> mirrorToTalk]

\* inspectSlackOwnership once the owner is resolved
inspectOwner(owner, event, store) ==
    IF owner.talkId = "undefined"
    THEN Ownership("pass", "undefined", owner.reason, undefined, "undef")
    ELSE IF store[owner.talkId] = NoTalk
    THEN Ownership("pass", owner.talkId, "talk-not-found", owner.binding.id, "undef")
    ELSE LET gate == shouldHandleViaBehavior(store[owner.talkId], owner.binding.id, event)
         IN IF ~gate.handle
            THEN Ownership("pass", owner.talkId, gate.reason, owner.binding.id, "undef")
            ELSE Ownership("handled", owner.talkId, "undefined", owner.binding.id,
                           gate.mirrorToTalk)

inspectSlackOwnership(event, store) ==
    inspectOwner(resolveOwnerTalk(store, event), event, store)

\* the dedup table after pruneSeenEvents(now)
pruneSeenEvents_eager(seen, time) ==
    [e \in DOMAIN seen |->
        IF seen[e] # NotSeen /\ 2 * (time - seen[e].ts) >= EVENT_TTL_MS
        THEN NotSeen ELSE seen[e]]

pruneSeenEvents_never(seen, time) == seen

pruneSeenEvents(seen, time) ==
    [e \in DOMAIN seen |->
        IF seen[e] # NotSeen /\ time - seen[e].ts > EVENT_TTL_MS
        THEN NotSeen ELSE seen[e]]

Payload(decision, talkId, reason, eventId, duplicate) ==
    [decision |-> decision, talkId |-> talkId, reason |-> reason,
     eventId |-> eventId, duplicate |-> duplicate]

\* the three ways routeSlackIngressEvent answers an event it has not seen
passPath(ownership) ==
    \/ ownership.decision = "pass"
    \/ ownership.talkId = "undefined"
    \/ ownership.bindingId = undefined

routePayload_ownership(event, ownership, store) ==
       Payload(ownership.decision, ownership.talkId,
               IF ownership.reason = "undefined" THEN "delegated-to-agent"
               ELSE ownership.reason,
               event.eventId, FALSE)

routePayload(event, ownership, store) ==
       IF passPath(ownership)
       THEN Payload("pass", "undefined",
                    IF ownership.reason = "undefined" THEN "no-binding"
                    ELSE ownership.reason,
                    event.eventId, FALSE)
       ELSE IF store[ownership.talkId] # NoTalk
       THEN Payload("pass", ownership.talkId, "delegated-to-agent", event.eventId, FALSE)
       ELSE Payload("pass", "undefined", "talk-not-found", event.eventId, FALSE)

SeenDecision(ts, payload) ==
    [ts |-> ts, decision |-> payload.decision, talkId |-> payload.talkId,
     reason |-> payload.reason]

buildInboundMessage(event) ==
    [sender |-> IF event.userName # undefined THEN event.userName
                ELSE IF event.userId # undefined THEN event.userId
                ELSE <<"u", "n", "k", "n", "o", "w", "n">>,
     channelLabel |-> STR_hash \o
         (IF Truthy(event.channelName)
          THEN (IF event.channelName[1] = "#" THEN Tail(event.channelName)
                ELSE event.channelName)
          ELSE event.channelId),
     text |-> event.text]

IngressFrame == UNCHANGED <<gIn, gOut, debounceMap, runningTalks, execJobs, starts,
                            proxyReq, forward, llmCalls, slackSends, affinityVars, hostVars, probeVars, execVars, auditVars>>

shouldMirror_always(delegated, mirrorMode) == delegated

\* (mirrorMode === 'inbound' || mirrorMode === 'full') && ownerTalk
shouldMirror(delegated, mirrorMode) == delegated /\ mirrorMode \in {"inbound", "full"}

countedTalk_replays(seen, ownership, delegated) ==
    IF seen # NotSeen THEN seen.talkId
    ELSE IF passPath(ownership) \/ delegated THEN ownership.talkId
    ELSE "undefined"

\* the Talk whose passed counter the call increments, "undefined" for none
countedTalk(seen, ownership, delegated) ==
    IF seen # NotSeen THEN "undefined"
    ELSE IF passPath(ownership) \/ delegated THEN ownership.talkId
    ELSE "undefined"

\* routeSlackIngressEvent after pruneSeenEvents, with the entry found for the
\* event and what inspectSlackOwnership says of it
routeWith(event, pruned, seen, ownership, fresh) ==
    LET duplicate == seen # NotSeen
        payload == IF duplicate
                   THEN Payload(seen.decision, seen.talkId, seen.reason,
                                event.eventId, TRUE)
                   ELSE fresh
        delegated == ~duplicate /\ ~passPath(ownership) /\ talks[ownership.talkId] # NoTalk
        counted == countedTalk(seen, ownership, delegated)
        mirror == shouldMirror(delegated, ownership.behaviorMirrorToTalk)
    IN /\ seenEvents' = IF duplicate THEN pruned
                        ELSE [pruned EXCEPT ![event.eventId] = SeenDecision(now, fresh)]
       /\ runtimeCounters' = IF counted = "undefined" THEN runtimeCounters
                             ELSE [runtimeCounters EXCEPT ![counted] = @ + 1]
       /\ IF mirror
          THEN /\ Len(history[ownership.talkId]) < MaxHistory
               /\ appendMessageStart(ownership.talkId,
                      TalkMessage("m2", "user", buildInboundMessage(event)))
          ELSE UNCHANGED fsOps
       /\ firstAns' = IF duplicate THEN firstAns
                      ELSE [firstAns EXCEPT ![event.eventId] =
                                [ts |-> now, payload |-> payload]]
       /\ rOut' = [eventId |-> event.eventId, at |-> now,
                   prior |-> firstAns[event.eventId],
                   payload |-> payload,
                   stale |-> fresh.reason # payload.reason]

routeOwned(event, pruned, ownership) ==
    routeWith(event, pruned, pruned[event.eventId], ownership,
              routePayload(event, ownership, talks))

\* what one call of routeSlackIngressEvent changes
routeSlackIngressEvent(event) ==
    routeOwned(event, pruneSeenEvents(seenEvents, now), inspectSlackOwnership(event, talks))

RouteUnchanged == UNCHANGED <<now, talks, usedIds, received, dirs, disk, history, deleted>>

\* the events routed: what parseSlackIngressEvent hands over
IngressEventIds == { BuiltEventId(STR_default, STR_C1, "1.1") }

SlackIngressEvent(eventId, accountId, channelName, userId, text) ==
    [eventId |-> eventId, accountId |-> accountId, channelId |-> STR_C1,
     channelName |-> channelName, outboundTarget |-> buildDefaultOutboundTarget(STR_C1),
     userId |-> userId, userName |-> undefined, text |-> text]

IngressEvents ==
    { SlackIngressEvent(e, s[1], s[2], s[3], s[4]) :
        e \in IngressEventIds,
        s \in { <<undefined, undefined, STR_U1, "<@U1> hello">>,
                <<undefined, undefined, STR_U2, "hello">>,
                <<STR_acctB, STR_g, STR_U1, "studied 2h of math">> } }

\* handleSlackIngress: the event parsed from the request is routed
RouteEvent ==
    \E event \in IngressEvents :
        /\ routeSlackIngressEvent(event)
        /\ RouteUnchanged
        /\ IngressFrame

\* Date.now() moves on
IngressTick ==
    /\ now < MaxTicks * (EVENT_TTL_MS \div 2)
    /\ now' = now + EVENT_TTL_MS \div 2
    /\ UNCHANGED <<talks, usedIds, received, fsOps, dirs, disk, history, deleted,
                   seenEvents, runtimeCounters, firstAns, rOut>>
    /\ IngressFrame

\* the store as loadAllAsync leaves it: two Talks read from their talk.json
LoadedTalk(id, bindings, behaviors) ==
    [NewTalk(id) EXCEPT
        !.platformBindings = normalizePlatformBindings(bindings),
        !.platformBehaviors =
            normalizePlatformBehaviors(behaviors, normalizePlatformBindings(bindings))]

IngressBindingInputs == { <<rowChan>>, <<rowWild>> }
IngressBehaviorInputs ==
    { << BehaviorRow(STR_b1, "undef", "inbound", "undef", <<>>) >>,
      << BehaviorRow(STR_b1, "mentions", "full", "advice_or_study", <<STR_U1>>) >> }

IngressInit ==
    /\ \E b1 \in IngressBindingInputs, h1 \in IngressBehaviorInputs :
          talks = [id \in TalkIds |->
                      IF id = "t1" THEN LoadedTalk(id, b1, h1)
                      ELSE LoadedTalk(id, <<rowChan>>, <<>>)]
    /\ usedIds = TalkIds
    /\ received = [id \in TalkIds |-> <<>>]
    /\ fsOps = EmptyBag
    /\ dirs = TalkIds
    /\ disk = talks
    /\ history = [id \in TalkIds |-> <<>>]
    /\ deleted = [id \in TalkIds |-> NoTalk]
    /\ OtherInit

IngressUpdateTalk ==
    updateTalk({<<rowRead>>},
               {<< BehaviorRow(STR_b1, "off", "undef", "undef", <<>>) >>})

NextIngress ==
    \/ RouteEvent \/ IngressTick
    \/ IngressUpdateTalk \/ deleteTalk

SpecIngress == IngressInit /\ [][NextIngress]_vars

\* the mirror of an inbound message followed into the history: one Talk owns
\* the channel, with no Behavior or with one of three, and may be deleted
MirrorBehaviorInputs ==
    { <<>>,
      << BehaviorRow(STR_b1, "undef", "inbound", "undef", <<>>) >>,
      << BehaviorRow(STR_b1, "mentions", "full", "advice_or_study", <<STR_U1>>) >>,
      << BehaviorRow(STR_b1, "all", "off", "undef", <<>>) >> }

MirrorInit ==
    /\ \E h1 \in MirrorBehaviorInputs :
          talks = [id \in TalkIds |->
                      IF id = "t1" THEN LoadedTalk(id, <<rowChan>>, h1) ELSE NoTalk]
    /\ usedIds = {"t1"}
    /\ received = [id \in TalkIds |-> <<>>]
    /\ fsOps = EmptyBag
    /\ dirs = {"t1"}
    /\ disk = talks
    /\ history = [id \in TalkIds |-> <<>>]
    /\ deleted = [id \in TalkIds |-> NoTalk]
    /\ OtherInit

NextMirror ==
    \/ RouteEvent \/ deleteTalk
    \/ FsMkdirAppend \/ FsAppendFile \/ FsMkdirMeta \/ FsWriteMeta \/ FsRm

SpecMirror == MirrorInit /\ [][NextMirror]_vars

\* the dedup table followed over two events of one channel and nine hours
DedupEvents ==
    { SlackIngressEvent(BuiltEventId(a, STR_C1, "1.1"), undefined, undefined,
                        STR_U1, "hello") : a \in {STR_default, <<"a">>} }

RouteDedupEvent ==
    \E event \in DedupEvents :
        /\ routeSlackIngressEvent(event)
        /\ RouteUnchanged
        /\ IngressFrame

DedupInit ==
    /\ talks = [id \in TalkIds |->
                   IF id = "t1" THEN LoadedTalk(id, <<rowChan>>, <<>>) ELSE NoTalk]
    /\ usedIds = {"t1"}
    /\ received = [id \in TalkIds |-> <<>>]
    /\ fsOps = EmptyBag
    /\ dirs = {"t1"}
    /\ disk = talks
    /\ history = [id \in TalkIds |-> <<>>]
    /\ deleted = [id \in TalkIds |-> NoTalk]
    /\ OtherInit

NextDedup == RouteDedupEvent \/ IngressTick

SpecDedup == DedupInit /\ [][NextDedup]_vars

\* inspectSlackOwnership called for events of a channel one Talk owns, the
\* binding having no Behavior row or one of those below
STR_u1_pad == <<" ", "u", "1">>
STR_asher  == <<"a", "s", "h", "e", "r">>
STR_Asher  == <<"A", "s", "h", "e", "r">>

GateBehaviorInputs ==
    { <<>> } \cup
    { << BehaviorRow(STR_b1, mode, "off", policy, senders) >> :
        mode \in {"undef", "off", "mentions", "all"},
        policy \in {"undef", "judgment", "study_entries_only", "advice_or_study"},
        senders \in { <<>>, <<STR_u1_pad>>, <<STR_asher>> } }

GateEvents ==
    { [SlackIngressEvent(BuiltEventId(STR_default, STR_C1, "1.1"), undefined,
                         undefined, u[1], text) EXCEPT !.userName = u[2]] :
        u \in { <<STR_U1, undefined>>, <<STR_U2, undefined>>, <<STR_U2, STR_Asher>> },
        text \in Texts }

InspectSlackOwnershipCall ==
    \E event \in GateEvents :
        /\ inspected' = [event |-> event, result |-> inspectSlackOwnership(event, talks)]
        /\ UNCHANGED <<now, talks, usedIds, received, fsOps, dirs, disk, history, deleted,
                       seenEvents, runtimeCounters, firstAns, rOut, gIn, gOut,
                       debounceMap, runningTalks, execJobs, starts, proxyReq, forward,
                       llmCalls, slackSends, affinityVars, hostVars, execVars, auditVars,
                       doctorOut>>

GateInit ==
    /\ \E h1 \in GateBehaviorInputs :
          talks = [id \in TalkIds |->
                      IF id = "t1" THEN LoadedTalk(id, <<rowChan>>, h1) ELSE NoTalk]
    /\ usedIds = {"t1"}
    /\ received = [id \in TalkIds |-> <<>>]
    /\ fsOps = EmptyBag
    /\ dirs = {"t1"}
    /\ disk = talks
    /\ history = [id \in TalkIds |-> <<>>]
    /\ deleted = [id \in TalkIds |-> NoTalk]
    /\ OtherInit

NextGate == InspectSlackOwnershipCall

SpecGate == GateInit /\ [][NextGate]_vars

\* events of channel C1 routed over Talks whose bindings for it are for
\* another platform, read-only or of another account; every binding has a
\* Behavior that mirrors inbound messages
STR_acctA_pad == <<"A", " ">>
rowAcctB == BindingRow(STR_b6, STR_slack, STR_C1, STR_acctB, undefined)
rowAcctA == BindingRow(STR_b7, STR_slack, STR_C1, STR_acctA_pad, STR_write)

OwnerBindingInputs ==
    { <<rowRead>>, <<rowChanTg>>, <<rowAcctB>>, <<rowAcctA>>,
      <<rowRead, rowChanTg, rowAcctB>>, <<rowRead, rowChan>> }

mirrorInbound(bindings) ==
    [i \in 1..Len(bindings) |-> BehaviorRow(bindings[i].id, "undef", "inbound", "undef", <<>>)]

OwnerEvents ==
    { SlackIngressEvent(BuiltEventId(a[1], STR_C1, "1.1"), a[2], undefined, STR_U1, "hello") :
        a \in { <<STR_default, undefined>>, <<(<<"a">>), (<<"a">>)>> } }

eventOfId(eventId) == CHOOSE e \in OwnerEvents : e.eventId = eventId

RouteOwnerEvent ==
    \E event \in OwnerEvents :
        /\ routeSlackIngressEvent(event)
        /\ RouteUnchanged
        /\ IngressFrame

OwnerInit ==
    /\ \E b1 \in OwnerBindingInputs, other \in BOOLEAN :
          talks = [id \in TalkIds |->
                      IF id = "t1" THEN LoadedTalk(id, b1, mirrorInbound(b1))
                      ELSE IF other THEN LoadedTalk(id, <<rowWild>>, <<>>)
                      ELSE NoTalk]
    /\ usedIds = listTalks(talks)
    /\ received = [id \in TalkIds |-> <<>>]
    /\ fsOps = EmptyBag
    /\ dirs = listTalks(talks)
    /\ disk = talks
    /\ history = [id \in TalkIds |-> <<>>]
    /\ deleted = [id \in TalkIds |-> NoTalk]
    /\ OtherInit

NextOwner == RouteOwnerEvent \/ IngressTick

SpecOwner == OwnerInit /\ [][NextOwner]_vars

(***************************************************************************)
(* Claims about routeSlackIngressEvent                                     *)
(***************************************************************************)
Routed == rOut # [none |-> TRUE]

\* the event routed last had been answered before, and the entry made then is
\* no older than EVENT_TTL_MS
Replayed == Routed /\ rOut.prior # NotSeen /\ rOut.at - rOut.prior.ts <= EVENT_TTL_MS

\* C1: an event replayed under the same eventId before its dedup entry has
\* expired is answered with duplicate = true and with the decision, the reason
\* and the talkId of the first answer, whatever happened to the Talks since.
C1_ReplayAnswersAsBefore ==
    Replayed =>
        /\ rOut.payload.duplicate
        /\ rOut.payload.decision = rOut.prior.payload.decision
        /\ rOut.payload.reason = rOut.prior.payload.reason
        /\ rOut.payload.talkId = rOut.prior.payload.talkId

\* a replay whose answer is no longer what the store would answer now
C1_Witness ==
    /\ Replayed
    /\ rOut.payload.duplicate
    /\ rOut.at > rOut.prior.ts
    /\ Emitted > 0
    /\ rOut.stale

\* the age, at the last routing call, of the entry made when the event routed
\* then was last processed as new
PriorAge == rOut.at - rOut.prior.ts

\* C33: a dedup entry lives for 6 hours: a replay of an eventId less than
\* 6 hours after its first routing is answered as a duplicate, after every
\* routing call the table holds no entry older than 6 hours, and a replay later
\* than that is processed as a new event (its entry is made anew).
C33_DedupEntryLivesSixHours ==
    Routed =>
        /\ \A e \in EventIds :
              seenEvents[e] # NotSeen => rOut.at - seenEvents[e].ts <= EVENT_TTL_MS
        /\ (rOut.prior # NotSeen /\ PriorAge < EVENT_TTL_MS) =>
              /\ rOut.payload.duplicate
              /\ seenEvents[rOut.eventId].ts = rOut.prior.ts
        /\ (rOut.prior # NotSeen /\ PriorAge > EVENT_TTL_MS) =>
              /\ ~rOut.payload.duplicate
              /\ seenEvents[rOut.eventId].ts = rOut.at

\* an event replayed nine hours after its first routing was processed as new,
\* and the call dropped the nine-hour-old entry of the other event
C33_Witness ==
    /\ Routed
    /\ rOut.prior # NotSeen /\ PriorAge > EVENT_TTL_MS
    /\ ~rOut.payload.duplicate
    /\ \E e \in EventIds \ {rOut.eventId} :
          firstAns[e] # NotSeen /\ seenEvents[e] = NotSeen

\* an event replayed three hours after its first routing, answered as a duplicate
C33_WitnessReplay ==
    /\ Routed
    /\ rOut.prior # NotSeen /\ PriorAge > 0 /\ PriorAge < EVENT_TTL_MS
    /\ rOut.payload.duplicate

Inspected == inspected # [none |-> TRUE]

\* the three checks of the gate, each on its own
SenderCheck(behavior, event) == senderAllowed(behavior, event)

ResponseModeCheck(behavior, event) ==
    /\ behavior.responseMode # "off"
    /\ behavior.responseMode = "mentions" => messageLooksLikeMention(event.text)

TriggerPolicyCheck(behavior, event) ==
    /\ behavior.triggerPolicy = "study_entries_only"
          => resolveMessageIntent(event.text) = "study"
    /\ behavior.triggerPolicy = "advice_or_study"
          => resolveMessageIntent(event.text) # "other"

\* C34: for an event with a unique owner Talk, the result of
\* inspectSlackOwnership is handled if and only if all three gate checks pass,
\* and otherwise the reason is that of the first failing check in the order
\* allowedSenders (sender-not-allowed), responseMode (on-message-disabled or
\* mention-required), triggerPolicy (trigger-policy-no-match); a binding
\* without a Behavior row passes the gate.
C34_FirstFailingCheckDecides ==
    (Inspected /\ inspected.result.talkId # "undefined") =>
        LET event == inspected.event
            result == inspected.result
            behavior == resolveBehaviorForBinding(talks[result.talkId], result.bindingId)
        IN IF behavior = NoTalk THEN result.decision = "handled"
           ELSE LET c1 == SenderCheck(behavior, event)
                    c2 == ResponseModeCheck(behavior, event)
                    c3 == TriggerPolicyCheck(behavior, event)
                IN /\ result.decision = "handled" <=> (c1 /\ c2 /\ c3)
                   /\ result.decision \in {"handled", "pass"}
                   /\ ~c1 => result.reason = "sender-not-allowed"
                   /\ (c1 /\ ~c2) =>
                         result.reason = IF behavior.responseMode = "off"
                                         THEN "on-message-disabled"
                                         ELSE "mention-required"
                   /\ (c1 /\ c2 /\ ~c3) => result.reason = "trigger-policy-no-match"

\* a sender outside allowedSenders on a binding whose responseMode is off and
\* whose triggerPolicy the text does not meet: the reason is the sender's
C34_Witness ==
    /\ Inspected /\ inspected.result.talkId # "undefined"
    /\ LET behavior == resolveBehaviorForBinding(talks[inspected.result.talkId],
                                                 inspected.result.bindingId)
       IN /\ behavior # NoTalk
          /\ ~SenderCheck(behavior, inspected.event)
          /\ ~ResponseModeCheck(behavior, inspected.event)
          /\ ~TriggerPolicyCheck(behavior, inspected.event)
          /\ inspected.result.reason = "sender-not-allowed"

\* a binding without a Behavior row: handled
C34_WitnessNoBehavior ==
    /\ Inspected /\ inspected.result.talkId # "undefined"
    /\ talks[inspected.result.talkId].platformBehaviors = <<>>
    /\ inspected.result.decision = "handled"

\* a sender listed by name, a mention, a study entry: handled
C34_WitnessHandled ==
    /\ Inspected /\ inspected.result.decision = "handled"
    /\ talks["t1"].platformBehaviors # <<>>
    /\ talks["t1"].platformBehaviors[1].allowedSenders # <<>>
    /\ talks["t1"].platformBehaviors[1].triggerPolicy = "study_entries_only"

readOnly(permission) ==
    permission # undefined /\ toLowerCase(trim(permission)) = STR_read

\* the three exclusions of a binding, the account compared after trimming and
\* lower-casing, an event without accountId taken for account 'default'
excludedAsStated(binding, event) ==
    \/ toLowerCase(trim(binding.platform)) # STR_slack
    \/ readOnly(binding.permission)
    \/ /\ explicitAccountId(binding.accountId) # undefined
       /\ explicitAccountId(binding.accountId) # normalizeAccountId(event.accountId)

\* the same, the account compared only when the event carries one
excludedByAccountCarried(binding, event) ==
    \/ toLowerCase(trim(binding.platform)) # STR_slack
    \/ readOnly(binding.permission)
    \/ /\ explicitAccountId(binding.accountId) # undefined
       /\ explicitAccountId(event.accountId) # undefined
       /\ explicitAccountId(binding.accountId) # explicitAccountId(event.accountId)

onlyExcluded(excl(_, _), id, event) ==
    /\ talks[id] # NoTalk
    /\ \A i \in 1..Len(talks[id].platformBindings) :
          excl(talks[id].platformBindings[i], event)

\* the routing call leaves the Talk alone: it is not named in the answer, its
\* counter stays and no message is appended to it
notOwnerIn(id) ==
    /\ rOut'.payload.talkId # id
    /\ runtimeCounters'[id] = runtimeCounters[id]
    /\ \A op \in BagToSet(fsOps') :
          op.talkId = id => CopiesIn(op, fsOps') = CopiesIn(op, fsOps)

\* C35 as stated: a binding that is not for platform slack, has permission
\* read, or has an accountId that is set and differs from the event's
\* accountId never makes its Talk the owner of the event: a Talk with only
\* such bindings is not delegated to, counted or mirrored to by the routing
\* of the event.
C35_ExcludedBindingsNeverOwn ==
    [][\A id \in TalkIds :
          (rOut' # rOut /\ onlyExcluded(excludedAsStated, id, eventOfId(rOut'.eventId)))
              => notOwnerIn(id)]_vars

\* C35 amended: the account of a binding excludes it only from events that
\* carry an accountId (a different one after trimming and lower-casing); an
\* event without accountId is matched by the bindings of every account.
C35_ExcludedForCarriedAccount ==
    [][\A id \in TalkIds :
          (rOut' # rOut /\ onlyExcluded(excludedByAccountCarried, id, eventOfId(rOut'.eventId)))
              => notOwnerIn(id)]_vars

\* an event of account a was routed past a Talk whose only binding for the
\* channel is of account B, and past one with a read-only, a telegram and an
\* account-B binding
C35_Witness ==
    /\ Routed /\ ~rOut.payload.duplicate
    /\ eventOfId(rOut.eventId).accountId # undefined
    /\ talks["t1"].platformBindings # <<>>
    /\ \E i \in 1..Len(talks["t1"].platformBindings) :
          talks["t1"].platformBindings[i].accountId = STR_acctB
    /\ rOut.payload.talkId # "t1"
    /\ runtimeCounters["t1"] = 0

\* an event without accountId made a Talk the owner through its binding of
\* account B
C35_WitnessNoAccount ==
    /\ Routed /\ ~rOut.payload.duplicate
    /\ eventOfId(rOut.eventId).accountId = undefined
    /\ Len(talks["t1"].platformBindings) = 1
    /\ talks["t1"].platformBindings[1].accountId = STR_acctB
    /\ rOut.payload.talkId = "t1"
    /\ runtimeCounters["t1"] > 0

\* C2: routeSlackIngressEvent answers 'pass' whatever it is given, never
\* 'handled', and no LLM call and no Slack send is started by it.
C2_RouteAlwaysPasses ==
    Routed => rOut.payload.decision = "pass" /\ llmCalls = 0 /\ slackSends = 0

\* an event a Talk owns and whose Behavior lets it through is still passed
C2_Witness ==
    /\ Routed
    /\ rOut.payload.decision = "pass"
    /\ rOut.payload.reason = "delegated-to-agent"
    /\ rOut.payload.talkId \in TalkIds
    /\ ~rOut.payload.duplicate

\* the Talks whose best binding scores highest for the event, when that
\* score is 0 or more
TopScore(store, event, id) == bestBinding(store[id], event).score

TopTalks(store, event) ==
    {id \in listTalks(store) :
        /\ TopScore(store, event, id) >= 0
        /\ \A other \in listTalks(store) :
               TopScore(store, event, other) <= TopScore(store, event, id)}

FirstRouting(event) == pruneSeenEvents(seenEvents, now)[event.eventId] = NotSeen

\* C12: when two or more Talks tie for the highest binding score of an event
\* routed for the first time, the result is pass with reason
\* ambiguous-binding and no talkId, no Talk's pass counter changes and
\* nothing is mirrored to any Talk.
C12_TieIsAmbiguous ==
    [][\A event \in IngressEvents :
          ( /\ FirstRouting(event)
            /\ Cardinality(TopTalks(talks, event)) >= 2
            /\ routeSlackIngressEvent(event) )
          => /\ rOut'.payload =
                    Payload("pass", "undefined", "ambiguous-binding", event.eventId, FALSE)
             /\ runtimeCounters' = runtimeCounters
             /\ fsOps' = fsOps
             /\ history' = history]_vars

\* an event answered ambiguous-binding while both Talks are in the store
C12_Witness ==
    /\ Routed
    /\ ~rOut.payload.duplicate
    /\ rOut.payload.reason = "ambiguous-binding"
    /\ rOut.at > 0
    /\ Cardinality(listTalks(talks)) = 2

\* C14: routing an event whose eventId is in the dedup table (its entry has
\* not expired) changes no pass counter, mirrors nothing to any Talk and
\* leaves the stored decision as it is; so while the entry lives, however
\* often a delegated event is replayed, the owner Talk's pass counter is 1.
C14_ReplayHasNoEffect ==
    /\ [][\A event \in IngressEvents :
            (routeSlackIngressEvent(event) /\ ~FirstRouting(event))
            => /\ rOut'.payload.duplicate
               /\ runtimeCounters' = runtimeCounters
               /\ fsOps' = fsOps
               /\ history' = history
               /\ seenEvents'[event.eventId] = seenEvents[event.eventId]]_vars
    /\ []( ( /\ Routed
              /\ now <= EVENT_TTL_MS
              /\ rOut.payload.duplicate
              /\ rOut.payload.reason = "delegated-to-agent" )
            => runtimeCounters[rOut.payload.talkId] = 1 )

\* a delegated event replayed twice, half a TTL and a whole TTL after it was
\* first routed
C14_Witness ==
    /\ Routed
    /\ rOut.payload.duplicate
    /\ rOut.payload.reason = "delegated-to-agent"
    /\ rOut.prior.ts = 0
    /\ rOut.at = EVENT_TTL_MS
    /\ runtimeCounters[rOut.payload.talkId] = 1

\* the Behavior of the binding that wins the event for its only top Talk
OwnerOf(store, event) == CHOOSE id \in TopTalks(store, event) : TRUE

MatchingBehavior(store, event) ==
    resolveBehaviorForBinding(store[OwnerOf(store, event)],
        store[OwnerOf(store, event)].platformBindings[
            bestBinding(store[OwnerOf(store, event)], event).index].id)

MirrorOn(store, event) ==
    /\ MatchingBehavior(store, event) # NoTalk
    /\ MatchingBehavior(store, event).mirrorToTalk \in {"inbound", "full"}

MirrorAppends(ops, id) ==
    {op \in BagToSet(ops) : op.kind \in {"mkdirAppend", "appendFile"} /\ op.talkId = id}

\* C15: a delegated event whose matching Behavior has mirrorToTalk inbound or
\* full starts exactly one appendMessage of a role-user message for the owner
\* Talk, a replay or an event with mirrorToTalk off or without Behavior starts
\* none; the history of the Talk never holds more than that one message, and
\* holds it once the append is through; and the end of an append, failed or
\* not, leaves the answer and the stored decision as they are.
C15_MirrorsOnce ==
    /\ [][\A event \in IngressEvents :
            routeSlackIngressEvent(event)
            => IF /\ FirstRouting(event)
                  /\ rOut'.payload.reason = "delegated-to-agent"
                  /\ MirrorOn(talks, event)
               THEN /\ BagCardinality(fsOps') = BagCardinality(fsOps) + 1
                    /\ \E op \in MirrorAppends(fsOps', rOut'.payload.talkId) :
                          /\ fsOps' = fsOps (+) SetToBag({op})
                          /\ op.arg.msg.role = "user"
               ELSE fsOps' = fsOps]_vars
    /\ [](\A id \in TalkIds :
            /\ Len(history[id]) <= 1
            /\ \A i \in 1..Len(history[id]) : history[id][i].role = "user"
            /\ ( /\ talks[id] # NoTalk
                  /\ runtimeCounters[id] = 1
                  /\ Routed /\ rOut.payload.reason = "delegated-to-agent"
                  /\ MirrorOn(talks, [channelId |-> STR_C1, accountId |-> undefined,
                                      channelName |-> undefined,
                                      outboundTarget |-> undefined])
                  /\ MirrorAppends(fsOps, id) = {} )
                => Len(history[id]) = 1)
    /\ [][(\E op \in BagToSet(fsOps) : op.kind = "appendFile" /\ fsOps' # fsOps)
           => (rOut' = rOut /\ seenEvents' = seenEvents)]_vars

\* the mirrored message is in the history and the event was replayed since;
\* and, in another run, the append failed after the Talk directory was removed
C15_Witness ==
    /\ Routed
    /\ rOut.payload.duplicate
    /\ rOut.payload.reason = "delegated-to-agent"
    /\ Len(history[rOut.payload.talkId]) = 1
    /\ history[rOut.payload.talkId][1].role = "user"
    /\ fsOps = EmptyBag

C15_WitnessFailed ==
    /\ Routed
    /\ rOut.payload.reason = "delegated-to-agent"
    /\ talks["t1"] = NoTalk
    /\ deleted["t1"] # NoTalk
    /\ deleted["t1"].platformBehaviors # <<>>
    /\ history["t1"] = <<>>
    /\ fsOps = EmptyBag

(***************************************************************************)
(* slack-event-proxy.ts                                                    *)
(***************************************************************************)
SLACK_TIMESTAMP_TOLERANCE_S == 60 * 5
FORWARD_MAX_RETRIES == 2

NaN == [nan |-> TRUE]
Abs(n) == IF n < 0 THEN 0 - n ELSE n

DigitValue == [c \in {"0", "1", "2", "3"} |-> CASE c = "0" -> 0 [] c = "1" -> 1
                                                 [] c = "2" -> 2 [] c = "3" -> 3]

\* the value of the digits s starts with, NaN when it starts with none
RECURSIVE leadingDigits(_, _, _)
leadingDigits(s, acc, any) ==
    IF s # <<>> /\ Head(s) \in DOMAIN DigitValue
    THEN leadingDigits(Tail(s), 10 * acc + DigitValue[Head(s)], TRUE)
    ELSE IF any THEN [n |-> acc] ELSE NaN

\* parseInt(str, 10)
parseInt(str) ==
    LET t == trimStart(str)
    IN IF t # <<>> /\ Head(t) = "-"
       THEN (IF leadingDigits(Tail(t), 0, FALSE) = NaN THEN NaN
             ELSE [n |-> 0 - leadingDigits(Tail(t), 0, FALSE).n])
       ELSE IF t # <<>> /\ Head(t) = "+" THEN leadingDigits(Tail(t), 0, FALSE)
       ELSE leadingDigits(t, 0, FALSE)

\* 'v0=' + HMAC-SHA256(secret, 'v0:<timestamp>:<body>'): two signatures are
\* equal only when secret, timestamp and body are
hmacSignature(secret, timestamp, rawBody) ==
    [v |-> "v0", secret |-> secret, timestamp |-> timestamp, body |-> rawBody]

NoSignature == [v |-> ""]

withinTolerance_always(ts, time) == TRUE

\* the timestamp test of verifySlackSignature
withinTolerance(ts, time) == ~(Abs(time \div 1000 - ts) > SLACK_TIMESTAMP_TOLERANCE_S)

verifyParsed(ts, signingSecret, timestamp, rawBody, signature, time) ==
    IF ts = NaN THEN FALSE
    ELSE IF ~withinTolerance(ts.n, time) THEN FALSE
    ELSE hmacSignature(signingSecret, timestamp, rawBody) = signature

verifySlackSignature(signingSecret, timestamp, rawBody, signature, time) ==
    verifyParsed(parseInt(timestamp), signingSecret, timestamp, rawBody, signature, time)

AccountSecret(accountId, secret) == [accountId |-> accountId, secret |-> secret]

usableSecret(value, result) ==
    /\ value # undefined
    /\ trim(value) # <<>>
    /\ \A i \in 1..Len(result) : result[i].secret # trim(value)

RECURSIVE accountSecrets(_, _)
accountSecrets(accounts, result) ==
    IF accounts = <<>> THEN result
    ELSE LET acc == Head(accounts)
             id == toLowerCase(trim(acc.accountId))
         IN accountSecrets(Tail(accounts),
                IF usableSecret(acc.signingSecret, result)
                THEN Append(result, AccountSecret(IF id = <<>> THEN STR_default ELSE id,
                                                  trim(acc.signingSecret)))
                ELSE result)

withBase(cfg, result) ==
    IF usableSecret(cfg.signingSecret, result)
    THEN Append(result, AccountSecret(STR_default, trim(cfg.signingSecret)))
    ELSE result

withEnv(cfg, result) ==
    IF usableSecret(cfg.env, result)
    THEN Append(result, AccountSecret(STR_default, trim(cfg.env)))
    ELSE result

collectSigningSecrets(cfg) == withEnv(cfg, withBase(cfg, accountSecrets(cfg.accounts, <<>>)))

\* index of the first secret the signature verifies against, 0 when none does
firstVerified(secrets, timestamp, rawBody, signature, time) ==
    LET ok == {i \in 1..Len(secrets) :
                 verifySlackSignature(secrets[i].secret, timestamp, rawBody, signature, time)}
    IN IF ok = {} THEN 0 ELSE CHOOSE i \in ok : \A j \in ok : i <= j

accountAt(secrets, i) == IF i = 0 THEN undefined ELSE secrets[i].accountId

firstAccount(secrets, timestamp, rawBody, signature, time) ==
    accountAt(secrets, firstVerified(secrets, timestamp, rawBody, signature, time))

verifyAndResolveAccount(cfg, timestamp, rawBody, signature, time) ==
    firstAccount(collectSigningSecrets(cfg), timestamp, rawBody, signature, time)

STR_events == <<"/", "s", "l", "a", "c", "k", "/", "e", "v", "e", "n", "t", "s">>

\* resolveOpenClawWebhookUrl with neither override set: the path on the host
resolveOpenClawWebhookUrl(cfg, accountId) ==
    LET own == {i \in 1..Len(cfg.accounts) :
                   /\ cfg.accounts[i].accountId = accountId
                   /\ cfg.accounts[i].webhookPath # undefined
                   /\ trim(cfg.accounts[i].webhookPath) # <<>>}
        path == trim(cfg.accounts[CHOOSE i \in own : \A j \in own : i >= j].webhookPath)
    IN IF own = {} THEN STR_events
       ELSE IF path[1] = "/" THEN path ELSE <<"/">> \o path

NoEvent == [none |-> TRUE]

buildEventIdFromSlack(payload, accountId) ==
    BuiltEventId(accountId,
                 IF payload.event.channel = undefined
                 THEN <<"u", "n", "k", "n", "o", "w", "n">> ELSE payload.event.channel,
                 payload.event.ts)

\* slackPayloadToIngressBody and then parseSlackIngressEvent
parseSlackIngressEvent(payload, accountId) ==
    IF payload.event = NoEvent \/ ~Truthy(payload.event.channel) THEN NoEvent
    ELSE IF trim(payload.event.channel) = <<>> \/ payload.event.text = "" THEN NoEvent
    ELSE [eventId |-> buildEventIdFromSlack(payload, accountId),
          accountId |-> IF trim(accountId) = <<>> THEN undefined ELSE trim(accountId),
          channelId |-> trim(payload.event.channel),
          channelName |-> undefined,
          outboundTarget |-> buildDefaultOutboundTarget(trim(payload.event.channel)),
          userId |-> payload.event.user, userName |-> undefined,
          text |-> payload.event.text]

minimalEvent(payload, accountId) ==
    [eventId |-> buildEventIdFromSlack(payload, accountId),
     accountId |-> accountId, channelId |-> payload.event.channel,
     channelName |-> undefined, outboundTarget |-> undefined,
     userId |-> undefined, userName |-> undefined, text |-> payload.event.text]

Response(status, body) == [status |-> status, body |-> body]

\* what the handler has done when it returns
Outcome(res, forwardTo, route) == [res |-> res, forwardTo |-> forwardTo, route |-> route]

ackAwaited(body) == Response(0, [pending |-> TRUE])

\* sendJson(res, 200, body) of a request that went through verification: it is
\* called in the same turn as forwardToOpenClaw(...) and routeSlackIngressEvent
ack(body) == Response(200, body)

\* step 7 of handleSlackEventProxy, with what inspectSlackOwnership says
routeOwnedBy(ownership, payload, accountId, url) ==
    IF ownership.decision = "handled" /\ ownership.talkId # "undefined"
    THEN Outcome(ack([ok |-> TRUE, routed |-> "clawtalk", talkId |-> ownership.talkId]),
                 undefined, parseSlackIngressEvent(payload, accountId))
    ELSE Outcome(ack([ok |-> TRUE, routed |-> "openclaw"]), url, NoEvent)

\* steps 5 to 7, the payload parsed and verified
routeVerified(payload, accountId, url, store) ==
    IF payload.type # "event_callback"
    THEN Outcome(ack([ok |-> TRUE, forwarded |-> TRUE]), url, NoEvent)
    ELSE IF payload.event # NoEvent /\ payload.event.bot
    THEN Outcome(ack([ok |-> TRUE, skipped |-> "bot_message"]), url, NoEvent)
    ELSE IF /\ payload.event # NoEvent
            /\ payload.event.type \in {"message", "app_mention"}
            /\ Truthy(payload.event.channel)
    THEN routeOwnedBy(inspectSlackOwnership(minimalEvent(payload, accountId), store),
                      payload, accountId, url)
    ELSE Outcome(ack([ok |-> TRUE, routed |-> "openclaw"]), url, NoEvent)

Rejected(status, error) == Outcome(Response(status, [error |-> error]), undefined, NoEvent)

\* steps 3 and 4: the signature verified for accountId
handleVerified(req, cfg, accountId, store) ==
    IF ~req.body.json THEN Rejected(400, "Invalid JSON body")
    ELSE IF req.body.type = "url_verification"
    THEN Outcome(Response(200, [challenge |-> "challenge"]), undefined, NoEvent)
    ELSE routeVerified(req.body, accountId, resolveOpenClawWebhookUrl(cfg, accountId), store)

\* step 2, with the account verifyAndResolveAccount resolves
handleResolved(req, cfg, accountId, store) ==
    IF accountId = undefined THEN Rejected(401, "Invalid Slack signature")
    ELSE handleVerified(req, cfg, accountId, store)

proxyOutcome(req, cfg, time, store) ==
    IF req.method # "POST" THEN Rejected(405, "Method not allowed")
    ELSE IF ~req.readable THEN Rejected(400, "Failed to read request body")
    ELSE IF collectSigningSecrets(cfg) = <<>>
    THEN Rejected(500, "Slack signing secret not configured")
    ELSE handleResolved(req, cfg,
             verifyAndResolveAccount(cfg, req.timestamp, req.body, req.signature, time),
             store)

NoForward == [none |-> TRUE]

\* forwardToOpenClaw up to its first await: attempt 0 is on its way
startForward ==
    [attempt |-> 0, phase |-> "inflight", sent |-> 1, result |-> 0,
     allFailed |-> TRUE, sentAfterResponse |-> FALSE]

\* how one attempt ends: a transport error (-1) or a response status
TransportError == -1
AttemptOutcomes == {TransportError, 200, 404, 503}

retryAfter_always(outcome, attempt) == attempt < FORWARD_MAX_RETRIES

\* whether forwardToOpenClaw goes round its loop again
retryAfter(outcome, attempt) ==
    (outcome = TransportError \/ outcome >= 500) /\ attempt < FORWARD_MAX_RETRIES

forwardResult_raw(outcome) == outcome

\* what forwardToOpenClaw resolves with when its loop ends on this outcome:
\* the last response, or { status: 502 } after the last attempt threw
forwardResult(outcome) == IF outcome = TransportError THEN 502 ELSE outcome

ProxyFrame == UNCHANGED <<gIn, gOut, debounceMap, runningTalks, execJobs, starts,
                          llmCalls, slackSends, affinityVars, hostVars, probeVars, execVars, auditVars, talks, usedIds, received, dirs, disk,
                          history, deleted>>

\* forwardToOpenClawOnce resolves or throws
ForwardAttemptEnds ==
    \E outcome \in AttemptOutcomes :
        /\ forward # NoForward
        /\ forward.phase = "inflight"
        /\ forward' =
             [forward EXCEPT
                !.phase = IF retryAfter(outcome, forward.attempt) THEN "backoff" ELSE "done",
                !.result = IF retryAfter(outcome, forward.attempt) THEN 0
                           ELSE forwardResult(outcome),
                !.allFailed = @ /\ (outcome = TransportError \/ outcome >= 500)]
        /\ UNCHANGED <<now, proxyReq, seenEvents, runtimeCounters, fsOps, firstAns, rOut>>
        /\ ProxyFrame

\* the backoff timer fires and the next attempt is sent
ForwardRetry ==
    /\ forward # NoForward
    /\ forward.phase = "backoff"
    /\ forward' = [forward EXCEPT !.phase = "inflight", !.attempt = @ + 1,
                                  !.sent = @ + 1,
                                  !.sentAfterResponse = @ \/ ~forward.allFailed]
    /\ UNCHANGED <<now, proxyReq, seenEvents, runtimeCounters, fsOps, firstAns, rOut>>
    /\ ProxyFrame

\* the configured secrets, and whether one of them signed the request with a
\* timestamp no more than five minutes from the clock
ConfiguredSecrets(cfg) ==
    { trim(v) : v \in ({cfg.signingSecret, cfg.env}
                         \cup {cfg.accounts[i].signingSecret : i \in 1..Len(cfg.accounts)})
                        \ {undefined} } \ {<<>>}

GenuinelySigned(req, cfg, time) ==
    /\ parseInt(req.timestamp) # NaN
    /\ Abs(time \div 1000 - parseInt(req.timestamp).n) <= 300
    /\ \E secret \in ConfiguredSecrets(cfg) :
          req.signature = hmacSignature(secret, req.timestamp, req.body)

handledAs(req, cfg, out) ==
    /\ forward' = IF out.forwardTo # undefined THEN startForward ELSE forward
    /\ IF out.route # NoEvent
       THEN routeSlackIngressEvent(out.route)
       ELSE UNCHANGED <<seenEvents, runtimeCounters, fsOps, firstAns, rOut>>
    /\ proxyReq' =
         [method |-> req.method, readable |-> req.readable,
          signed |-> req.readable /\ GenuinelySigned(req, cfg, now),
          noSecret |-> ConfiguredSecrets(cfg) = {},
          wellFormed |-> req.body.json,
          body |-> req.body,
          accountId |-> verifyAndResolveAccount(cfg, req.timestamp, req.body,
                                                req.signature, now),
          res |-> out.res,
          forwarded |-> out.forwardTo # undefined,
          routed |-> out.route # NoEvent,
          pendingAtAck |-> out.forwardTo # undefined /\ forward'.phase = "inflight",
          touched |-> <<seenEvents', runtimeCounters', fsOps'>>
                        # <<seenEvents, runtimeCounters, fsOps>>]
    /\ UNCHANGED now
    /\ ProxyFrame

\* requests and configurations
STR_s1    == <<"s", "1">>
STR_s1pad == <<" ", "s", "1">>
STR_s2    == <<"s", "2">>
STR_s3    == <<"s", "3">>
STR_Apad  == <<"A", " ">>

SlackAccount(accountId, signingSecret, webhookPath) ==
    [accountId |-> accountId, signingSecret |-> signingSecret, webhookPath |-> webhookPath]

SlackConfig(accounts, signingSecret, env) ==
    [accounts |-> accounts, signingSecret |-> signingSecret, env |-> env]

ProxyConfigs ==
    << SlackConfig(<<>>, undefined, <<" ">>),
       SlackConfig(<< SlackAccount(STR_Apad, STR_s1pad, STR_g) >>, STR_s1, STR_s2) >>

SlackPayload(type, event) == [json |-> TRUE, type |-> type, event |-> event]
BadJson == [json |-> FALSE]

SlackEvent(type, channel, text, bot) ==
    [type |-> type, channel |-> channel, text |-> text, ts |-> "1.1",
     user |-> STR_U1, bot |-> bot]

ProxyBodies ==
    { BadJson,
      SlackPayload("url_verification", NoEvent),
      SlackPayload("app_rate_limited", NoEvent),
      SlackPayload("event_callback", NoEvent),
      SlackPayload("event_callback", SlackEvent("message", STR_C1, "hello", FALSE)),
      SlackPayload("event_callback", SlackEvent("app_mention", STR_C1, "<@U1> hello", FALSE)),
      SlackPayload("event_callback", SlackEvent("message", STR_C1, "", FALSE)),
      SlackPayload("event_callback", SlackEvent("message", STR_C1, "hello", TRUE)),
      SlackPayload("event_callback", SlackEvent("reaction_added", STR_C1, "hello", FALSE)),
      SlackPayload("event_callback", SlackEvent("message", undefined, "hello", FALSE)) }

Timestamps == { <<"0">>, <<"3", "0", "0">>, <<"a">> }

ProxyRequest(method, readable, signature, timestamp, body) ==
    [method |-> method, readable |-> readable, signature |-> signature,
     timestamp |-> timestamp, body |-> body]

OtherBody == SlackPayload("app_rate_limited", NoEvent)
MessageBody == SlackPayload("event_callback", SlackEvent("message", STR_C1, "hello", FALSE))

ProxyRequests ==
    \* signed by Slack
    { ProxyRequest("POST", TRUE, hmacSignature(STR_s1, <<"3", "0", "0">>, b),
                   <<"3", "0", "0">>, b) : b \in ProxyBodies }
    \cup
    { ProxyRequest("POST", TRUE, hmacSignature(STR_s1, t, MessageBody), t, MessageBody) :
        t \in Timestamps }
    \cup
    { ProxyRequest("POST", TRUE, hmacSignature(STR_s2, t, OtherBody), t, OtherBody) :
        t \in Timestamps }
    \cup
    \* signed with an unknown secret, for another timestamp, for another body,
    \* or not at all
    { ProxyRequest("POST", TRUE, sig, <<"3", "0", "0">>, MessageBody) :
        sig \in { hmacSignature(STR_s3, <<"3", "0", "0">>, MessageBody),
                  hmacSignature(STR_s1, <<"0">>, MessageBody),
                  hmacSignature(STR_s1, <<"3", "0", "0">>, BadJson),
                  NoSignature } }
    \cup
    \* not a POST, or the body could not be read
    { ProxyRequest(m[1], m[2], sig, <<"3", "0", "0">>, MessageBody) :
        m \in {<<"GET", TRUE>>, <<"POST", FALSE>>},
        sig \in { hmacSignature(STR_s1, <<"3", "0", "0">>, MessageBody), NoSignature } }

\* without a secret configured only the first steps of the handler are taken
ProxyInputs ==
    { <<req, ProxyConfigs[2]>> : req \in ProxyRequests }
    \cup
    { <<req, ProxyConfigs[1]>> :
        req \in { r \in ProxyRequests : r.body = MessageBody /\ r.signature # NoSignature } }

handleSlackEventProxy ==
    \E input \in ProxyInputs :
        handledAs(input[1], input[2], proxyOutcome(input[1], input[2], now, talks))

\* Date.now() moves on by 150.5 s
ProxyTick ==
    /\ now < MaxTicks * 150500
    /\ now' = now + 150500
    /\ UNCHANGED <<proxyReq, forward, seenEvents, runtimeCounters, fsOps, firstAns, rOut>>
    /\ ProxyFrame

ProxyInit ==
    /\ \E h1 \in { <<>>, << BehaviorRow(STR_b1, "mentions", "inbound", "undef", <<>>) >> } :
          talks = [id \in TalkIds |->
                      IF id = "t1" THEN LoadedTalk(id, <<rowChan>>, h1) ELSE NoTalk]
    /\ usedIds = {"t1"}
    /\ received = [id \in TalkIds |-> <<>>]
    /\ fsOps = EmptyBag
    /\ dirs = {"t1"}
    /\ disk = talks
    /\ history = [id \in TalkIds |-> <<>>]
    /\ deleted = [id \in TalkIds |-> NoTalk]
    /\ OtherInit

NextProxy == handleSlackEventProxy \/ ForwardAttemptEnds \/ ForwardRetry \/ ProxyTick

SpecProxy == ProxyInit /\ [][NextProxy]_vars

(***************************************************************************)
(* Claims about the Slack event proxy                                      *)
(***************************************************************************)
Proxied == proxyReq # [none |-> TRUE]

Unverified == Proxied /\ proxyReq.method = "POST" /\ ~proxyReq.signed
Verified == Proxied /\ proxyReq.method = "POST" /\ proxyReq.signed

\* C6 as stated: a request is forwarded or handed to the ingress pipeline
\* only if one of the configured secrets signed it with a timestamp within five
\* minutes of the clock, and every other POST is answered 401, or 500 when no
\* secret is configured, without a forward, a dedup entry, a counter change or
\* a Talk write.
C6_UnverifiedAnswered401 ==
    Proxied =>
        /\ (proxyReq.forwarded \/ proxyReq.routed) => proxyReq.signed
        /\ Unverified =>
              /\ proxyReq.res.status = IF proxyReq.noSecret THEN 500 ELSE 401
              /\ ~proxyReq.forwarded /\ ~proxyReq.routed /\ ~proxyReq.touched

\* C6 amended: as above, except that a POST whose body cannot be read is
\* answered 400 before any signature is looked at; it too causes no forward, no
\* dedup entry, no counter change and no Talk write.
C6_UnverifiedNeverActs ==
    Proxied =>
        /\ (proxyReq.forwarded \/ proxyReq.routed) => proxyReq.signed
        /\ Unverified =>
              /\ proxyReq.res.status =
                    IF ~proxyReq.readable THEN 400
                    ELSE IF proxyReq.noSecret THEN 500 ELSE 401
              /\ ~proxyReq.forwarded /\ ~proxyReq.routed /\ ~proxyReq.touched

\* a POST turned away with 401 although secrets are configured
C6_Witness ==
    /\ Unverified
    /\ proxyReq.readable /\ ~proxyReq.noSecret
    /\ proxyReq.res.status = 401
    /\ ~proxyReq.forwarded /\ ~proxyReq.touched

Forwarding == forward # NoForward

\* C9: forwardToOpenClaw retries exactly twice: when every attempt ends in a
\* transport error or a 5xx response it sends 3 attempts in all and then
\* returns a result; no attempt follows a response with a status below 500.
C9_ForwardRetriesTwice ==
    Forwarding =>
        /\ forward.sent <= 3
        /\ ~forward.sentAfterResponse
        /\ forward.phase = "backoff" => forward.sent < 3 /\ forward.allFailed
        /\ forward.phase = "done" => forward.result # 0
        /\ (forward.phase = "done" /\ forward.allFailed) => forward.sent = 3
        /\ (forward.phase = "done" /\ ~forward.allFailed) => forward.result < 500

\* three attempts failed and the forward gave up
C9_Witness ==
    /\ Forwarding
    /\ forward.phase = "done" /\ forward.allFailed
    /\ forward.sent = 3 /\ forward.result = 502

\* C10: every verified, well-formed event is acknowledged with 200 without
\* waiting for the forward or the ingress pipeline: when the answer is sent the
\* forward is still on its first attempt, and the answer is the same whether the
\* forward then succeeds, fails, retries or never completes.
C10_AckNeverWaits ==
    (Verified /\ proxyReq.wellFormed) =>
        /\ proxyReq.res.status = 200
        /\ proxyReq.forwarded => proxyReq.pendingAtAck
        /\ proxyReq.forwarded \/ proxyReq.routed
              => proxyReq.res.body.ok

\* acknowledged with 200 although the forward has failed for good
C10_Witness ==
    /\ Verified /\ proxyReq.wellFormed
    /\ proxyReq.forwarded /\ proxyReq.res.status = 200
    /\ Forwarding /\ forward.phase = "done" /\ forward.result = 502

\* the forward the last request started has given up: each of its three
\* attempts ended in a transport error or a 5xx response
ForwardExhausted ==
    /\ Proxied /\ proxyReq.forwarded
    /\ Forwarding /\ forward.phase = "done" /\ forward.allFailed

EventCallback == Verified /\ proxyReq.wellFormed /\ proxyReq.body.type = "event_callback"

FromBot == proxyReq.body.event # NoEvent /\ proxyReq.body.event.bot

SaysHandled ==
    /\ proxyReq.body.event # NoEvent
    /\ Truthy(proxyReq.body.event.channel)
    /\ inspectSlackOwnership(minimalEvent(proxyReq.body, proxyReq.accountId),
                             talks).decision = "handled"

\* C16: every verified event_callback goes to exactly one destination: it is
\* either handed to routeSlackIngressEvent (only a message or app_mention that
\* is not from a bot and that the ownership check says is handled) or forwarded
\* to the host, never both and never neither; an event from a bot is always
\* forwarded and never handed to the ingress pipeline.
C16_ExactlyOneDestination ==
    EventCallback =>
        /\ proxyReq.forwarded # proxyReq.routed
        /\ proxyReq.routed =>
              /\ ~FromBot
              /\ proxyReq.body.event.type \in {"message", "app_mention"}
              /\ SaysHandled
        /\ FromBot => proxyReq.forwarded /\ ~proxyReq.routed

\* what holds of C16: never both, the ingress pipeline only for handled
\* messages of users, bots always forwarded, and an event that goes nowhere
\* is a handled message without text
C16_AtMostOneDestination ==
    EventCallback =>
        /\ ~(proxyReq.forwarded /\ proxyReq.routed)
        /\ proxyReq.routed =>
              /\ ~FromBot
              /\ proxyReq.body.event.type \in {"message", "app_mention"}
              /\ SaysHandled
        /\ FromBot => proxyReq.forwarded /\ ~proxyReq.routed
        /\ (~proxyReq.forwarded /\ ~proxyReq.routed)
              => (SaysHandled /\ proxyReq.body.event.text = "")

\* the request handled last is a verified message of a user
UserMessage ==
    /\ EventCallback /\ proxyReq.body.event # NoEvent /\ ~FromBot
    /\ proxyReq.body.event.type \in {"message", "app_mention"}
    /\ Truthy(proxyReq.body.event.channel)

\* C38: every Slack message that arrives at the webhook proxy and is recorded
\* by the ingress as delegated-to-agent is also delivered to the host, so the
\* managed agent it was delegated to receives it; no verified user message
\* ends up with neither a ClawTalk LLM call nor a forward to the host.
C38_DelegatedReachesHost ==
    UserMessage =>
        /\ (proxyReq.routed /\ Routed /\ rOut.payload.reason = "delegated-to-agent")
              => proxyReq.forwarded
        /\ proxyReq.forwarded \/ llmCalls > 0

\* what the proxy does with a user message: it is forwarded to the host
\* exactly when the ownership check does not say handled, and ClawTalk makes
\* no LLM call for it
C38_ForwardedUnlessHandled ==
    UserMessage =>
        /\ proxyReq.forwarded <=> ~SaysHandled
        /\ llmCalls = 0

(***************************************************************************)
(* The proxy in front of a channel whose Behavior restricts the senders    *)
(***************************************************************************)
SlackEventFrom(user, text) ==
    [type |-> "message", channel |-> STR_C1, text |-> text, ts |-> "1.1",
     user |-> user, bot |-> FALSE]

SenderLists ==
    { <<>>, << <<" ">> >>, <<STR_U1>>, <<STR_u1_pad>>, <<STR_asher>>, <<STR_U2, STR_U1>> }

SenderBodies ==
    { SlackPayload("event_callback", SlackEventFrom(user, text)) :
        user \in {STR_U1, STR_U2, undefined}, text \in {"hello", "<@U1> hello"} }

SenderRequests ==
    { ProxyRequest("POST", TRUE, hmacSignature(STR_s1, <<"3", "0", "0">>, b),
                   <<"3", "0", "0">>, b) : b \in SenderBodies }

SenderEventProxied ==
    \E req \in SenderRequests :
        handledAs(req, ProxyConfigs[2], proxyOutcome(req, ProxyConfigs[2], now, talks))

SendersInit ==
    /\ \E allowedSenders \in SenderLists, responseMode \in {"undef", "mentions"} :
          talks = [id \in TalkIds |->
                      IF id = "t1"
                      THEN LoadedTalk(id, <<rowChan>>,
                               << BehaviorRow(STR_b1, responseMode, "inbound", "undef",
                                              allowedSenders) >>)
                      ELSE NoTalk]
    /\ usedIds = {"t1"}
    /\ received = [id \in TalkIds |-> <<>>]
    /\ fsOps = EmptyBag
    /\ dirs = {"t1"}
    /\ disk = talks
    /\ history = [id \in TalkIds |-> <<>>]
    /\ deleted = [id \in TalkIds |-> NoTalk]
    /\ OtherInit

NextSenders == SenderEventProxied \/ ForwardAttemptEnds \/ ForwardRetry \/ ProxyTick

SpecSenders == SendersInit /\ [][NextSenders]_vars

\* the entries of allowedSenders that count, and whether the Slack user of
\* the proxied message is one of them
SenderKeys ==
    LET allowed == talks["t1"].platformBehaviors[1].allowedSenders
    IN {toLowerCase(trim(allowed[i])) : i \in 1..Len(allowed)} \ {<<>>}

SenderListed ==
    /\ proxyReq.body.event.user # undefined
    /\ toLowerCase(trim(proxyReq.body.event.user)) \in SenderKeys

PreCheck ==
    inspectSlackOwnership(minimalEvent(proxyReq.body, proxyReq.accountId), talks)

IngressCheck ==
    inspectSlackOwnership(parseSlackIngressEvent(proxyReq.body, proxyReq.accountId), talks)

\* C39: in the webhook proxy the ownership pre-check and the ingress pipeline
\* reach the same gate result for the same Slack message: on an owned channel
\* whose Behavior has allowedSenders, a message from a listed Slack user id
\* is routed to ClawTalk and a message from an unlisted user is forwarded to
\* the host.
C39_PreCheckAgreesWithIngress ==
    (UserMessage /\ SenderKeys # {}) =>
        /\ PreCheck.decision = IngressCheck.decision
        /\ PreCheck.reason = IngressCheck.reason
        /\ SenderListed /\ IngressCheck.decision = "handled"
              => proxyReq.routed /\ ~proxyReq.forwarded
        /\ ~SenderListed => proxyReq.forwarded /\ ~proxyReq.routed

\* what the proxy does instead: behind a list with any entry that counts the
\* pre-check sees no sender at all, so every message is forwarded to the host
C39_RestrictedChannelAlwaysForwarded ==
    (UserMessage /\ SenderKeys # {}) =>
        /\ PreCheck.reason = "sender-not-allowed"
        /\ proxyReq.forwarded /\ ~proxyReq.routed

\* a listed user, whom the ingress gate would handle, has been forwarded
C39_ListedUserForwarded ==
    /\ UserMessage /\ SenderKeys # {} /\ SenderListed
    /\ IngressCheck.decision = "handled"
    /\ proxyReq.forwarded

(***************************************************************************)
(* slack-ingress.ts: the message_received hook                             *)
(***************************************************************************)
STR_unknown == <<"u", "n", "k", "n", "o", "w", "n">>

\* normalizeText of a string value
normalizeText(value) ==
    IF value = undefined \/ trim(value) = <<>> THEN undefined ELSE trim(value)

\* value ?? fallback
orElse(value, fallback) == IF value = undefined THEN fallback ELSE value

buildEventId(input) ==
    JoinedEventId(orElse(input.accountId, STR_default),
                  input.channelId,
                  IF input.messageTs # "undefined" THEN input.messageTs
                  ELSE IF input.threadTs # "undefined" THEN input.threadTs
                  ELSE "unknown",
                  orElse(input.userId, STR_unknown))

\* String.prototype.split(':'): the places of the colons
colons(s) == {i \in 1..Len(s) : s[i] = ":"}

parseSlackTargetId(target) ==
    IF normalizeText(target) = undefined THEN undefined
    ELSE IF colons(normalizeText(target)) = {} THEN normalizeText(target)
    ELSE LET n == normalizeText(target)
             maybeId == trim(SubSeq(n, SetMax(colons(n)) + 1, Len(n)))
         IN IF maybeId = <<>> THEN undefined ELSE maybeId

parseSlackFromId(from) ==
    IF normalizeText(from) = undefined THEN undefined
    ELSE LET n == normalizeText(from)
             c == colons(n)
             first == CHOOSE i \in c : \A j \in c : i <= j
             second == CHOOSE i \in c \ {first} : \A j \in c \ {first} : i <= j
             rest == IF Cardinality(c) >= 2 THEN SubSeq(n, second + 1, Len(n))
                     ELSE SubSeq(n, first + 1, Len(n))
         IN IF c = {} \/ rest = <<>> THEN undefined ELSE rest

\* String(Math.floor(event.timestamp)); a timestamp that is a finite number n
\* is kept as <<n>>, any other as <<>>
StringOfFloor(timestamp) == IF timestamp = <<1>> THEN "1" ELSE "0"

hookMessageTs(event) ==
    IF event.metadata.messageId # "undefined" THEN event.metadata.messageId
    ELSE IF event.timestamp # <<>> THEN StringOfFloor(event.timestamp)
    ELSE "undefined"

hookOutboundTarget(event, ctx) ==
    orElse(normalizeText(event.metadata.originatingTo),
           orElse(normalizeText(ctx.conversationId), normalizeText(event.metadata.to)))

hookChannelId(event, ctx) ==
    orElse(parseSlackTargetId(hookOutboundTarget(event, ctx)), parseSlackFromId(event.from))

parseSlackMessageReceivedHookEvent(event, ctx) ==
    IF toLowerCase(trim(ctx.channelId)) # STR_slack THEN NoEvent
    ELSE IF event.content = "" THEN NoEvent
    ELSE IF hookChannelId(event, ctx) = undefined THEN NoEvent
    ELSE [eventId |-> buildEventId(
                        [channelId |-> hookChannelId(event, ctx),
                         accountId |-> orElse(normalizeText(ctx.accountId),
                                              normalizeText(event.metadata.accountId)),
                         messageTs |-> hookMessageTs(event),
                         threadTs |-> event.metadata.threadId,
                         userId |-> normalizeText(event.metadata.senderId)]),
          accountId |-> orElse(normalizeText(ctx.accountId),
                               normalizeText(event.metadata.accountId)),
          channelId |-> hookChannelId(event, ctx),
          channelName |-> undefined,
          outboundTarget |-> orElse(hookOutboundTarget(event, ctx),
                                    buildDefaultOutboundTarget(hookChannelId(event, ctx))),
          userId |-> normalizeText(event.metadata.senderId),
          userName |-> undefined,
          text |-> event.content]

HookEvent(content, from, timestamp, originatingTo, messageId, senderId) ==
    [content |-> content, from |-> from, timestamp |-> timestamp,
     metadata |-> [originatingTo |-> originatingTo, to |-> undefined, accountId |-> undefined,
                   threadId |-> "undefined", messageId |-> messageId,
                   senderId |-> senderId]]

HookContext(channelId, accountId) ==
    [channelId |-> channelId, accountId |-> accountId, conversationId |-> undefined]

STR_slack_channel_C1 == STR_slack_colon \o STR_channel_colon \o STR_C1

\* what OpenClaw hands to the hook: the Slack message C1 / 1.1 / U1 "hello" of
\* the proxy's MessageBody, and others
HookInputs ==
    { <<HookEvent("hello", undefined, <<1>>, STR_channel_colon \o STR_C1, "1.1", STR_U1),
        HookContext(STR_Slack, <<"a">>)>>,
      <<HookEvent("hello", STR_slack_channel_C1, <<1>>, undefined, "1.1", STR_U1),
        HookContext(STR_Slack, undefined)>>,
      <<HookEvent("hello", STR_slack_channel_C1, <<1>>, undefined, "undefined", undefined),
        HookContext(STR_slack, <<"a">>)>>,
      <<HookEvent("hello", undefined, <<>>, STR_C1, "undefined", STR_U1),
        HookContext(STR_Slack, <<"a">>)>>,
      <<HookEvent("", undefined, <<1>>, STR_C1, "1.1", STR_U1), HookContext(STR_Slack, <<"a">>)>>,
      <<HookEvent("hello", undefined, <<1>>, undefined, "1.1", STR_U1),
        HookContext(STR_Slack, <<"a">>)>>,
      <<HookEvent("hello", undefined, <<1>>, STR_C1, "1.1", STR_U1),
        HookContext(STR_telegram, <<"a">>)>> }

hookHandled(parsed) ==
    /\ IF parsed # NoEvent
       THEN routeSlackIngressEvent(parsed)
       ELSE UNCHANGED <<seenEvents, runtimeCounters, fsOps, firstAns, rOut>>
    /\ UNCHANGED <<now, proxyReq, forward>>
    /\ ProxyFrame

handleSlackMessageReceivedHook ==
    \E input \in HookInputs :
        hookHandled(parseSlackMessageReceivedHookEvent(input[1], input[2]))

\* handleSlackEventProxy for the event_callbacks Slack signed
SignedCallbacks ==
    { input \in ProxyInputs :
        /\ input[1].body.json /\ input[1].body.type = "event_callback"
        /\ input[1].timestamp = <<"3", "0", "0">>
        /\ input[1].signature = hmacSignature(STR_s1, input[1].timestamp, input[1].body) }

handleSignedCallback ==
    \E input \in SignedCallbacks :
        handledAs(input[1], input[2], proxyOutcome(input[1], input[2], now, talks))

NextHook == handleSignedCallback \/ handleSlackMessageReceivedHook

SpecHook == ProxyInit /\ [][NextHook]_vars

\* the hook event stands for the Slack message the proxy routed last
SameSlackMessage(parsed) ==
    /\ Proxied /\ proxyReq.routed
    /\ parsed # NoEvent
    /\ parsed.accountId = proxyReq.accountId
    /\ parsed.channelId = proxyReq.body.event.channel
    /\ parsed.userId = proxyReq.body.event.user
    /\ parsed.text = proxyReq.body.event.text
    /\ \E input \in HookInputs :
          /\ parsed = parseSlackMessageReceivedHookEvent(input[1], input[2])
          /\ input[1].metadata.messageId = proxyReq.body.event.ts

\* C17: every event id under which a decision is stored has the five parts
\* slack : accountId or default : channelId : messageTs, threadTs or unknown :
\* userId or unknown, and a Slack message that was routed through the webhook
\* proxy and then arrives through the message_received hook is answered as a
\* duplicate.
C17_SameIdBothWays ==
    /\ [](\A e \in EventIds :
            seenEvents[e] # NotSeen => (Len(e) = 5 /\ e[1] = "slack"))
    /\ [][\A input \in HookInputs :
            ( /\ SameSlackMessage(parseSlackMessageReceivedHookEvent(input[1], input[2]))
              /\ hookHandled(parseSlackMessageReceivedHookEvent(input[1], input[2])) )
            => rOut'.payload.duplicate]_vars

\* the second half of C17 alone
C17_HookAfterProxyIsDuplicate ==
    [][\A input \in HookInputs :
          ( /\ SameSlackMessage(parseSlackMessageReceivedHookEvent(input[1], input[2]))
            /\ hookHandled(parseSlackMessageReceivedHookEvent(input[1], input[2])) )
          => rOut'.payload.duplicate]_vars

(***************************************************************************)
(* The routing reconciler: managed agents and host bindings                *)
(***************************************************************************)
MANAGED_AGENT_PREFIX == <<"c", "t", "-">>

\* String.prototype.slice(from, to) for 0 <= from <= to
slice(s, from, to) == SubSeq(s, from + 1, IF to < Len(s) THEN to ELSE Len(s))

\* `${MANAGED_AGENT_PREFIX}${talkId.slice(0, 8)}`, talkId being the characters
\* of the id
buildManagedAgentId(talkId) == MANAGED_AGENT_PREFIX \o slice(talkId, 0, 8)

isManagedAgentId(agentId) == startsWith(agentId, MANAGED_AGENT_PREFIX)

\* normalizeAccountId of the reconciler: 'default' for what is no string or blank
reconcileAccountId(value) ==
    IF value = undefined \/ trim(value) = <<>> THEN STR_default
    ELSE toLowerCase(trim(value))

isWritePermission(permission) == permission \in {STR_write, STR_read_write}

NoPeer == [none |-> TRUE]

STR_channel == <<"c", "h", "a", "n", "n", "e", "l">>
STR_user == <<"u", "s", "e", "r">>

peerOfNormalized(normalized, colon) ==
    IF trim(SubSeq(normalized, colon + 1, Len(normalized))) = <<>> THEN NoPeer
    ELSE IF toLowerCase(trim(SubSeq(normalized, 1, colon - 1)))
              \in {STR_channel, STR_user}
    THEN [kind |-> toLowerCase(trim(SubSeq(normalized, 1, colon - 1))),
          id |-> toUpperCase(trim(SubSeq(normalized, colon + 1, Len(normalized))))]
    ELSE NoPeer

peerOfScope(normalized) ==
    IF colons(normalized) = {} THEN NoPeer
    ELSE peerOfNormalized(normalized,
                          CHOOSE i \in colons(normalized) :
                              \A j \in colons(normalized) : i <= j)

parseSlackPeerFromScope(scopeRaw) ==
    IF trim(scopeRaw) = <<>> THEN NoPeer
    ELSE IF startsWith(toLowerCase(trim(scopeRaw)), STR_slack_colon)
    THEN peerOfScope(SubSeq(trim(scopeRaw), Len(STR_slack_colon) + 1, Len(trim(scopeRaw))))
    ELSE peerOfScope(trim(scopeRaw))

DesiredBinding(talkId, accountId, peer, requireMention) ==
    [talkId |-> talkId, agentId |-> buildManagedAgentId(idText[talkId]),
     accountId |-> accountId, peer |-> peer, requireMention |-> requireMention]

\* behaviorsByBindingId.get(binding.id)?.responseMode === 'mentions'
requiresMention(talk, bindingId) ==
    LET rows == {i \in 1..Len(talk.platformBehaviors) :
                    talk.platformBehaviors[i].platformBindingId = bindingId}
    IN rows # {} /\ talk.platformBehaviors[SetMax(rows)].responseMode = "mentions"

\* the Talks as listTalks hands them over, each with its bindings in order
bindingsInOrder(store) ==
    LET of(id) == IF store[id] = NoTalk THEN <<>>
                  ELSE [i \in 1..Len(store[id].platformBindings) |-> <<id, i>>]
    IN of("t1") \o of("t2")

RECURSIVE desiredFrom(_, _, _, _)
desiredFrom(store, pairs, seen, out) ==
    IF pairs = <<>> THEN out
    ELSE LET talk == store[pairs[1][1]]
             binding == talk.platformBindings[pairs[1][2]]
             peer == parseSlackPeerFromScope(binding.scope)
             key == <<reconcileAccountId(binding.accountId), peer>>
         IN IF \/ toLowerCase(trim(binding.platform)) # STR_slack
               \/ ~isWritePermission(binding.permission)
               \/ peer = NoPeer
               \/ key \in seen
            THEN desiredFrom(store, Tail(pairs), seen, out)
            ELSE desiredFrom(store, Tail(pairs), seen \cup {key},
                     Append(out, DesiredBinding(talk.id, key[1], peer,
                                                requiresMention(talk, binding.id))))

desiredSlackBindingsFromTalks(store) == desiredFrom(store, bindingsInOrder(store), {}, <<>>)

STR_ClawTalk_ == <<"C", "l", "a", "w", "T", "a", "l", "k", " ">>
STR_moltbot == <<"m", "o", "l", "t", "b", "o", "t">>
STR_clawtalk == <<"c", "l", "a", "w", "t", "a", "l", "k">>

ManagedAgent(id, name, model) == [id |-> id, name |-> name, model |-> model, sandbox |-> "off"]

\* agents.defaults.model.primary, trimmed, or 'moltbot' when it is no string
defaultModelOf(cfg) == IF cfg.primary = undefined THEN STR_moltbot ELSE trim(cfg.primary)

\* the entry buildManagedAgentsFromTalks pushes for one Talk
managedAgentOf(talk, defaultModel) ==
    ManagedAgent(buildManagedAgentId(idText[talk.id]),
                 IF Truthy(talk.topicTitle) THEN talk.topicTitle
                 ELSE STR_ClawTalk_ \o buildManagedAgentId(idText[talk.id]),
                 IF Truthy(talk.model) THEN talk.model ELSE defaultModel)

RECURSIVE agentsFrom(_, _, _, _, _, _)
agentsFrom(store, ids, talkIds, defaultModel, seen, agents) ==
    IF ids = <<>> THEN agents
    ELSE IF \/ store[ids[1]] = NoTalk
            \/ ids[1] \notin talkIds
            \/ buildManagedAgentId(idText[ids[1]]) \in seen
    THEN agentsFrom(store, Tail(ids), talkIds, defaultModel, seen, agents)
    ELSE agentsFrom(store, Tail(ids), talkIds, defaultModel,
                    seen \cup {buildManagedAgentId(idText[ids[1]])},
                    Append(agents, managedAgentOf(store[ids[1]], defaultModel)))

buildManagedAgentsFromTalks(store, desired, defaultModel) ==
    agentsFrom(store, <<"t1", "t2">>, {desired[i].talkId : i \in 1..Len(desired)},
               defaultModel, {}, <<>>)

HostBinding(agentId, channel, accountId, peer) ==
    [agentId |-> agentId,
     match |-> [channel |-> channel, accountId |-> accountId, peer |-> peer]]

buildManagedBinding(entry) ==
    HostBinding(entry.agentId, STR_slack, entry.accountId, entry.peer)

\* match.channel is slack and match.peer names a channel or a user
isSlackPeerBindingRow(row) ==
    /\ toLowerCase(trim(row.match.channel)) = STR_slack
    /\ row.match.peer # NoPeer
    /\ toLowerCase(trim(row.match.peer.kind)) \in {STR_channel, STR_user}
    /\ trim(row.match.peer.id) # <<>>

NoKey == <<>>

\* `${accountId}:${kind}:${id}`, kept as its three parts
bindingKeyFromRow(row) ==
    IF \/ toUpperCase(trim(row.match.peer.id)) = <<>>
       \/ toLowerCase(trim(row.match.peer.kind)) \notin {STR_channel, STR_user}
    THEN NoKey
    ELSE <<reconcileAccountId(row.match.accountId),
           [kind |-> toLowerCase(trim(row.match.peer.kind)),
            id |-> toUpperCase(trim(row.match.peer.id))]>>

desiredKeysOf(desired) ==
    { <<desired[i].accountId, desired[i].peer>> : i \in 1..Len(desired) }

retainedRow_anyAgent(row, desiredKeys) ==
    \/ ~isSlackPeerBindingRow(row)
    \/ bindingKeyFromRow(row) = NoKey
    \/ bindingKeyFromRow(row) \notin desiredKeys

retainedRow_all(row, desiredKeys) == TRUE

\* the loop of reconcileSlackRoutingForTalks over cfg.bindings: is the row kept
retainedRow(row, desiredKeys) ==
    \/ ~isSlackPeerBindingRow(row)
    \/ bindingKeyFromRow(row) = NoKey
    \/ /\ bindingKeyFromRow(row) \notin desiredKeys
       /\ ~isManagedAgentId(toLowerCase(trim(row.agentId)))
       /\ toLowerCase(trim(row.agentId)) # STR_clawtalk

\* the bindings and agents.list reconcileSlackRoutingForTalks writes
reconciled(store, cfg) ==
    LET desired == desiredSlackBindingsFromTalks(store)
        retain(row) == retainedRow(row, desiredKeysOf(desired))
        unmanaged(agent) == ~isManagedAgentId(trim(agent.id))
    IN [cfg EXCEPT
          !.bindings = [i \in 1..Len(desired) |-> buildManagedBinding(desired[i])]
                          \o SelectSeq(cfg.bindings, retain),
          !.agents = SelectSeq(cfg.agents, unmanaged)
                        \o buildManagedAgentsFromTalks(store, desired, defaultModelOf(cfg))]

ReconcileFrame ==
    /\ UNCHANGED <<now, talks, usedIds, received, fsOps, dirs, disk, history, deleted,
                   seenEvents, runtimeCounters, firstAns, rOut, gIn, gOut, idText, probeVars, execVars>>
    /\ UNCHANGED <<debounceMap, runningTalks, execJobs, starts, proxyReq, forward,
                   llmCalls, slackSends, affinityVars, auditVars>>

\* next !== raw: the run writes openclaw.json
writesConfig(store, cfg) ==
    reconciled(store, cfg) # cfg \/ cfg.raw # "stringified"

\* the file after the run: the text written, or the text left alone because
\* it is that text already
reconciledFile(store, cfg) ==
    IF writesConfig(store, cfg)
    THEN [reconciled(store, cfg) EXCEPT !.raw = "stringified"]
    ELSE cfg

reconcileSlackRoutingForTalks ==
    /\ hostConfig' = reconciledFile(talks, hostConfig)
    /\ ReconcileFrame

STR_C2 == <<"C", "2">>
STR_main == <<"m", "a", "i", "n">>
STR_CT_old_pad == <<" ", "C", "T", "-", "o", "l", "d", " ">>
STR_ct_t9 == <<"c", "t", "-", "t", "9">>
STR_Channel_pad == <<" ", "C", "h", "a", "n", "n", "e", "l">>
STR_group == <<"g", "r", "o", "u", "p">>
STR_m1 == <<"m", "1">>
STR_Alpha == <<"A", "l", "p", "h", "a">>

PeerOf(kind, id) == [kind |-> kind, id |-> id]

\* rows of openclaw.json written by the user or by an earlier run
hostRowMainC1 == HostBinding(STR_main, STR_slack, undefined, PeerOf(STR_Channel_pad, STR_c1))
hostRowMainC2 == HostBinding(STR_main, STR_Slack, STR_default, PeerOf(STR_channel, STR_C2))
hostRowStaleC2 == HostBinding(STR_ct_t9, STR_slack, STR_default, PeerOf(STR_channel, STR_C2))
hostRowUpperC2 == HostBinding(STR_CT_old_pad, STR_slack, STR_acctA, PeerOf(STR_user, STR_U1))
hostRowLegacy == HostBinding(STR_clawtalk, STR_slack, STR_default, PeerOf(STR_channel, STR_C2))
hostRowTelegram == HostBinding(STR_ct_t9, STR_telegram, STR_default, PeerOf(STR_channel, STR_C1))
hostRowAccount == HostBinding(STR_clawtalk, STR_slack, STR_default, NoPeer)
hostRowGroup == HostBinding(STR_ct_t9, STR_slack, STR_default, PeerOf(STR_group, STR_C1))

\* openclaw.json as the user or an earlier run left it
HostConfigInputs ==
    { EmptyHostConfig,
      [bindings |-> << hostRowMainC1, hostRowStaleC2 >>,
       agents |-> << ManagedAgent(STR_main, STR_main, STR_m1),
                     ManagedAgent(STR_ct_t9, STR_Alpha, STR_m1) >>,
       primary |-> STR_m1, raw |-> "stringified"],
      [bindings |-> << hostRowTelegram, hostRowMainC2, hostRowLegacy, hostRowUpperC2,
                       hostRowMainC1 >>,
       agents |-> << ManagedAgent(STR_main, STR_main, STR_m1) >>,
       primary |-> undefined, raw |-> "other"],
      [bindings |-> << hostRowAccount, hostRowMainC2, hostRowGroup >>,
       agents |-> <<>>,
       primary |-> undefined, raw |-> "other"] }

HostConfigEdited ==
    /\ hostConfig' \in HostConfigInputs
    /\ ReconcileFrame

STR_channel_c1 == <<"c", "h", "a", "n", "n", "e", "l", ":", "c", "1">>

rowPeer == BindingRow(STR_b6, STR_slack, STR_channel_c1, undefined, STR_write)
rowSlackPeer == BindingRow(STR_b7, STR_Slack, STR_slack_colon \o STR_channel_c1, STR_acctB, undefined)

rowPeerAgain ==
    BindingRow(STR_b8, STR_Slack, STR_slack_colon \o STR_channel_c1, STR_default, STR_read_write)

ReconcileBindingInputs ==
    { <<rowPeer>>, <<rowSlackPeer>>, <<rowChan>>, <<rowWild>>, <<rowRead, rowName>>,
      <<rowPeer, rowPeerAgain>> }

ReconcileInit ==
    /\ \E b1 \in ReconcileBindingInputs, h1 \in MirrorBehaviorInputs,
          b2 \in {<<>>, <<rowPeer>>, <<rowWild>>} :
          talks = [id \in TalkIds |->
                      IF id = "t1"
                      THEN [LoadedTalk(id, b1, h1) EXCEPT !.topicTitle = STR_Alpha,
                                                          !.model = STR_m1]
                      ELSE LoadedTalk(id, b2, <<>>)]
    /\ usedIds = TalkIds
    /\ received = [id \in TalkIds |-> <<>>]
    /\ fsOps = EmptyBag
    /\ dirs = TalkIds
    /\ disk = talks
    /\ history = [id \in TalkIds |-> <<>>]
    /\ deleted = [id \in TalkIds |-> NoTalk]
    /\ idText \in IdTextInputs
    /\ replyToEvent = TRUE
    /\ RestInit

NextReconcile == RouteEvent \/ reconcileSlackRoutingForTalks \/ HostConfigEdited

SpecReconcile == ReconcileInit /\ [][NextReconcile]_vars

(***************************************************************************)
(* The ownership doctor: findOpenClawSlackOwnershipConflicts               *)
(***************************************************************************)
NoSlackScope == <<>>
MaxDoctorBindings == 2     \* bindings per Talk the doctor is run over

\* normalizeSlackBindingScope of talks.ts, for the scopes the data model
\* names: slack:* stays, channel:<ID> and user:<ID> become kind:id
normalizeSlackBindingScope(scope) ==
    LET t == trim(scope)
        peer == parseSlackPeerFromScope(t)
    IN IF toLowerCase(t) = STR_slack_colon \o STR_star THEN STR_slack_colon \o STR_star
       ELSE IF peer = NoPeer THEN NoSlackScope
       ELSE peer.kind \o <<":">> \o toLowerCase(peer.id)

normalizeSlackScopeForOwnership(scope) == toLowerCase(normalizeSlackBindingScope(scope))

OpenClawSlackBinding(agentId, accountId, scope) ==
    [agentId |-> agentId, accountId |-> accountId, scope |-> scope]

\* what parseOpenClawSlackBindings pushes for one row, <<>> for a row it skips
parsedHostRow(row) ==
    LET agentId == trim(row.agentId)
        accountId == reconcileAccountId(row.match.accountId)
        peer == row.match.peer
    IN IF agentId = <<>> THEN <<>>
       ELSE IF toLowerCase(trim(row.match.channel)) # STR_slack THEN <<>>
       ELSE IF peer = NoPeer
       THEN << OpenClawSlackBinding(agentId, accountId, STR_slack_colon \o STR_star) >>
       ELSE IF trim(peer.id) = <<>> \/ toLowerCase(trim(peer.kind)) = <<>> THEN <<>>
       ELSE IF toLowerCase(trim(peer.kind)) \in {STR_channel, STR_user}
       THEN << OpenClawSlackBinding(agentId, accountId,
                  toLowerCase(toLowerCase(trim(peer.kind)) \o <<":">>
                              \o toUpperCase(trim(peer.id)))) >>
       ELSE <<>>

RECURSIVE concatAll(_)
concatAll(seqs) == IF seqs = <<>> THEN <<>> ELSE Head(seqs) \o concatAll(Tail(seqs))

parseOpenClawSlackBindings(cfg) ==
    concatAll([i \in 1..Len(cfg.bindings) |-> parsedHostRow(cfg.bindings[i])])

talkSlackBindings(id, talk) ==
    LET keep(binding) ==
            /\ toLowerCase(trim(binding.platform)) = STR_slack
            /\ isWritePermission(binding.permission)
            /\ normalizeSlackScopeForOwnership(binding.scope) # NoSlackScope
        rows == SelectSeq(talk.platformBindings, keep)
    IN [i \in 1..Len(rows) |->
           [talkId |-> id, accountId |-> reconcileAccountId(rows[i].accountId),
            scope |-> normalizeSlackScopeForOwnership(rows[i].scope)]]

scopesConflict_equalOnly(talkScope, openClawScope) == talkScope = openClawScope

scopesConflict(talkScope, openClawScope) ==
    \/ talkScope = openClawScope
    \/ talkScope = STR_slack_colon \o STR_star
    \/ openClawScope = STR_slack_colon \o STR_star

SlackOwnershipConflict(talkBinding, openClawBinding) ==
    [talkId |-> talkBinding.talkId, talkScope |-> talkBinding.scope,
     talkAccountId |-> talkBinding.accountId,
     openClawAgentId |-> openClawBinding.agentId,
     openClawScope |-> openClawBinding.scope,
     openClawAccountId |-> openClawBinding.accountId]

\* the two inner loops for one Talk binding
conflictsOfBinding(talkBinding, openClawSlackBindings) ==
    LET hit(openClawBinding) ==
            /\ talkBinding.accountId = openClawBinding.accountId
            /\ scopesConflict(talkBinding.scope, openClawBinding.scope)
        rows == SelectSeq(openClawSlackBindings, hit)
    IN [j \in 1..Len(rows) |-> SlackOwnershipConflict(talkBinding, rows[j])]

conflictsOfTalk(id, talk, openClawSlackBindings) ==
    LET mine == talkSlackBindings(id, talk)
    IN concatAll([i \in 1..Len(mine) |-> conflictsOfBinding(mine[i], openClawSlackBindings)])

\* params.talks is store.listTalks(): the Talks in the order of the map
talksInOrder(store) ==
    SelectSeq(<<"t1", "t2">>, LAMBDA id : store[id] # NoTalk)

findOpenClawSlackOwnershipConflicts(store, openClawConfig, clawTalkAgentIds) ==
    LET ownedAgentIds ==
            {toLowerCase(trim(clawTalkAgentIds[i])) : i \in 1..Len(clawTalkAgentIds)} \ {<<>>}
        openClawSlackBindings ==
            SelectSeq(parseOpenClawSlackBindings(openClawConfig),
                      LAMBDA binding : toLowerCase(trim(binding.agentId)) \notin ownedAgentIds)
        order == talksInOrder(store)
    IN concatAll([k \in 1..Len(order) |->
                     conflictsOfTalk(order[k], store[order[k]], openClawSlackBindings)])

\* Talks and host configurations the doctor is run over
STR_sil      == <<"s", "i", "l">>
STR_SIL_pad  == <<" ", "S", "I", "L">>
STR_Main_pad == <<" ", "M", "a", "i", "n">>
STR_channel_C1 == <<"c", "h", "a", "n", "n", "e", "l", ":", "C", "1">>
STR_user_U1    == <<"U", "s", "e", "r", ":", "U", "1">>

docRowC1   == BindingRow(STR_b1, STR_Slack, STR_channel_C1, undefined, STR_write)
docRowWild == BindingRow(STR_b2, STR_slack, STR_slack_colon \o STR_star, STR_acctA_pad, undefined)
docRowRead == BindingRow(STR_b3, STR_slack, STR_channel_c1, undefined, STR_READ_pad)
docRowUser == BindingRow(STR_b4, STR_slack, STR_user_U1, STR_acctA, STR_read_write)

DoctorBindingInputs ==
    { <<docRowC1>>, <<docRowWild>>, <<docRowRead, rowChanTg>>, <<docRowC1, docRowUser>>,
      <<docRowWild, docRowC1>> }

hostSilentC1 == HostBinding(STR_sil, STR_slack, undefined, PeerOf(STR_Channel_pad, STR_c1))
hostOwnedC1  == HostBinding(STR_Main_pad, STR_Slack, STR_default, PeerOf(STR_channel, STR_C1))
hostAccountA == HostBinding(STR_sil, STR_slack, STR_acctA, NoPeer)
hostGroupA   == HostBinding(STR_sil, STR_slack, STR_acctA, PeerOf(STR_group, STR_C1))
hostUserA    == HostBinding(STR_sil, STR_slack, STR_acctA_pad, PeerOf(STR_user, STR_U1))
hostBlank    == HostBinding(<<" ">>, STR_slack, undefined, PeerOf(STR_channel, STR_C1))

DoctorHostInputs ==
    { <<>>, <<hostOwnedC1>>, <<hostSilentC1, hostOwnedC1>>,
      <<hostAccountA, hostGroupA, hostRowTelegram>>,
      <<hostUserA, hostBlank, hostSilentC1>> }

DoctorAgentIdInputs == { <<>>, <<STR_main, STR_clawtalk>>, <<STR_SIL_pad>> }

FindConflictsCall ==
    \E clawTalkAgentIds \in DoctorAgentIdInputs :
        /\ doctorOut' = [talks |-> talks, openClawConfig |-> hostConfig,
                         clawTalkAgentIds |-> clawTalkAgentIds,
                         conflicts |-> findOpenClawSlackOwnershipConflicts(
                                           talks, hostConfig, clawTalkAgentIds)]
        /\ UNCHANGED <<now, talks, usedIds, received, fsOps, dirs, disk, history, deleted,
                       seenEvents, runtimeCounters, firstAns, rOut, gIn, gOut,
                       debounceMap, runningTalks, execJobs, starts, proxyReq, forward,
                       llmCalls, slackSends, affinityVars, hostVars, execVars, auditVars,
                       inspected>>

DoctorInit ==
    /\ \E b1 \in DoctorBindingInputs, b2 \in {<<>>, <<docRowC1>>} :
          talks = [id \in TalkIds |->
                      IF id = "t1" THEN LoadedTalk(id, b1, <<>>)
                      ELSE IF b2 = <<>> THEN NoTalk ELSE LoadedTalk(id, b2, <<>>)]
    /\ usedIds = listTalks(talks)
    /\ received = [id \in TalkIds |-> <<>>]
    /\ fsOps = EmptyBag
    /\ dirs = listTalks(talks)
    /\ disk = talks
    /\ history = [id \in TalkIds |-> <<>>]
    /\ deleted = [id \in TalkIds |-> NoTalk]
    /\ OtherInit

\* openclaw.json is edited by the user or the host
DoctorHostConfigEdited ==
    \E rows \in DoctorHostInputs :
        /\ hostConfig' = [EmptyHostConfig EXCEPT !.bindings = rows]
        /\ UNCHANGED <<now, talks, usedIds, received, fsOps, dirs, disk, history, deleted,
                       seenEvents, runtimeCounters, firstAns, rOut, gIn, gOut,
                       debounceMap, runningTalks, execJobs, starts, proxyReq, forward,
                       llmCalls, slackSends, affinityVars, idText, execVars, auditVars,
                       probeVars>>

NextDoctor == FindConflictsCall \/ DoctorHostConfigEdited

SpecDoctor == DoctorInit /\ [][NextDoctor]_vars

DoctorCalled == doctorOut # [none |-> TRUE]

\* a row of the host's bindings that binds a Slack account, channel or user
\* to an agent, and its scope
hostSlackRow(row) ==
    /\ trim(row.agentId) # <<>>
    /\ toLowerCase(trim(row.match.channel)) = STR_slack
    /\ \/ row.match.peer = NoPeer
       \/ /\ toLowerCase(trim(row.match.peer.kind)) \in {STR_channel, STR_user}
          /\ trim(row.match.peer.id) # <<>>

hostScopeOf(row) ==
    IF row.match.peer = NoPeer THEN STR_slack_colon \o STR_star
    ELSE toLowerCase(trim(row.match.peer.kind)) \o <<":">> \o toLowerCase(trim(row.match.peer.id))

talkWriteBinding(binding) ==
    /\ toLowerCase(trim(binding.platform)) = STR_slack
    /\ binding.permission \in {STR_write, STR_read_write}
    /\ normalizeSlackScopeForOwnership(binding.scope) # NoSlackScope

\* the pairs the claim names: Talk, index of its binding, index of the host row
ConflictingPairs(store, cfg, clawTalkAgentIds) ==
    { p \in { <<id, i, j>> : id \in listTalks(store), i \in 1..MaxDoctorBindings,
                             j \in 1..Len(cfg.bindings) } :
        LET binding == store[p[1]].platformBindings
            row == cfg.bindings[p[3]]
            wildcard == STR_slack_colon \o STR_star
        IN /\ p[2] <= Len(binding)
           /\ talkWriteBinding(binding[p[2]])
           /\ hostSlackRow(row)
           /\ \A k \in 1..Len(clawTalkAgentIds) :
                 toLowerCase(trim(row.agentId)) # toLowerCase(trim(clawTalkAgentIds[k]))
           /\ reconcileAccountId(binding[p[2]].accountId)
                 = reconcileAccountId(row.match.accountId)
           /\ \/ normalizeSlackScopeForOwnership(binding[p[2]].scope) = hostScopeOf(row)
              \/ normalizeSlackScopeForOwnership(binding[p[2]].scope) = wildcard
              \/ hostScopeOf(row) = wildcard }

conflictOfPair(store, cfg, p) ==
    [talkId |-> p[1],
     talkScope |-> normalizeSlackScopeForOwnership(store[p[1]].platformBindings[p[2]].scope),
     talkAccountId |-> reconcileAccountId(store[p[1]].platformBindings[p[2]].accountId),
     openClawAgentId |-> trim(cfg.bindings[p[3]].agentId),
     openClawScope |-> hostScopeOf(cfg.bindings[p[3]]),
     openClawAccountId |-> reconcileAccountId(cfg.bindings[p[3]].match.accountId)]

ExpectedPairs ==
    ConflictingPairs(doctorOut.talks, doctorOut.openClawConfig, doctorOut.clawTalkAgentIds)

\* C36: findOpenClawSlackOwnershipConflicts reports a conflict for exactly
\* those pairs of a Talk Slack write-binding and a host Slack binding whose
\* agentId is not in clawTalkAgentIds that have the same normalized accountId
\* and either the same normalized scope or a slack:* wildcard on one side; it
\* changes neither the Talks nor the host config.
C36_ConflictsAreExactlyThePairs ==
    /\ [](DoctorCalled =>
            /\ SeqRange(doctorOut.conflicts)
                  = {conflictOfPair(doctorOut.talks, doctorOut.openClawConfig, p) :
                        p \in ExpectedPairs}
            /\ Len(doctorOut.conflicts) = Cardinality(ExpectedPairs))
    /\ [][doctorOut' # doctorOut => talks' = talks /\ hostConfig' = hostConfig /\ disk' = disk]_vars

\* a Talk wildcard of account a met the host's account-level row of account A,
\* and nothing was reported for the host's group row
C36_Witness ==
    /\ DoctorCalled
    /\ Len(doctorOut.conflicts) = 1
    /\ doctorOut.conflicts[1].talkScope = STR_slack_colon \o STR_star
    /\ doctorOut.conflicts[1].openClawScope = STR_slack_colon \o STR_star
    /\ doctorOut.openClawConfig.bindings = <<hostAccountA, hostGroupA, hostRowTelegram>>

\* the host row of an agent listed in clawTalkAgentIds (compared trimmed and
\* lower-cased) is not reported although account and channel match
C36_WitnessOwned ==
    /\ DoctorCalled
    /\ doctorOut.conflicts = <<>>
    /\ doctorOut.clawTalkAgentIds # <<>>
    /\ doctorOut.openClawConfig.bindings = <<hostOwnedC1>>
    /\ doctorOut.talks["t1"].platformBindings[1].scope = STR_channel_C1

\* cfg has the managed agent of the Talk and a binding row that routes the
\* account and the channel of the event to it
Provisioned(cfg, talkId, event) ==
    /\ \E i \in 1..Len(cfg.agents) : cfg.agents[i].id = buildManagedAgentId(idText[talkId])
    /\ \E i \in 1..Len(cfg.bindings) :
          /\ cfg.bindings[i].agentId = buildManagedAgentId(idText[talkId])
          /\ cfg.bindings[i].match.channel = STR_slack
          /\ cfg.bindings[i].match.accountId = reconcileAccountId(event.accountId)
          /\ cfg.bindings[i].match.peer =
                [kind |-> STR_channel, id |-> toUpperCase(trim(event.channelId))]

\* C18: whenever routeSlackIngressEvent answers delegated-to-agent for a Talk,
\* reconcileSlackRoutingForTalks over the same Talks writes the agent
\* ct-<talk id> and a binding row that routes the account and the channel of
\* the event to that agent, whatever scope won the ownership.
C18_DelegatedHasManagedAgent ==
    [][\A event \in IngressEvents :
          ( /\ routeSlackIngressEvent(event)
            /\ rOut'.payload.reason = "delegated-to-agent" )
          => Provisioned(reconciled(talks, hostConfig), rOut'.payload.talkId, event)]_vars

\* what holds of C18: a Talk that owns the event through a binding whose scope
\* names the peer (channel:<id>, with or without slack:) has its agent, and
\* its row routes the event when the account of the binding, or default
\* without one, is the account of the event
C18_PeerScopeHasManagedAgent ==
    [][\A event \in IngressEvents :
          ( /\ routeSlackIngressEvent(event)
            /\ rOut'.payload.reason = "delegated-to-agent"
            /\ parseSlackPeerFromScope(
                   talks[rOut'.payload.talkId].platformBindings[
                       bestBinding(talks[rOut'.payload.talkId], event).index].scope) # NoPeer
            /\ reconcileAccountId(
                   talks[rOut'.payload.talkId].platformBindings[
                       bestBinding(talks[rOut'.payload.talkId], event).index].accountId)
                 = reconcileAccountId(event.accountId) )
          => Provisioned(reconciled(talks, hostConfig), rOut'.payload.talkId, event)]_vars

\* an event delegated to a Talk whose agent and row the reconciler has written
C18_Witness ==
    /\ Routed
    /\ rOut.payload.reason = "delegated-to-agent"
    /\ hostConfig = reconciled(talks, hostConfig)
    /\ \E event \in IngressEvents : Provisioned(hostConfig, rOut.payload.talkId, event)
    /\ \E i \in 1..Len(hostConfig.agents) : ~isManagedAgentId(hostConfig.agents[i].id)

\* the Slack peers some Talk binds with write permission, as (accountId, peer)
DesiredPeers(store) ==
    { <<reconcileAccountId(store[id].platformBindings[i].accountId),
        parseSlackPeerFromScope(store[id].platformBindings[i].scope)>> :
          <<id, i>> \in { p \in TalkIds \X (1..4) :
              /\ store[p[1]] # NoTalk
              /\ p[2] <= Len(store[p[1]].platformBindings)
              /\ toLowerCase(trim(store[p[1]].platformBindings[p[2]].platform)) = STR_slack
              /\ isWritePermission(store[p[1]].platformBindings[p[2]].permission)
              /\ parseSlackPeerFromScope(store[p[1]].platformBindings[p[2]].scope) # NoPeer } }

\* the Talks binding the peer with write permission
BindersOf(store, key) ==
    { id \in TalkIds :
        /\ store[id] # NoTalk
        /\ \E i \in 1..Len(store[id].platformBindings) :
              /\ toLowerCase(trim(store[id].platformBindings[i].platform)) = STR_slack
              /\ isWritePermission(store[id].platformBindings[i].permission)
              /\ parseSlackPeerFromScope(store[id].platformBindings[i].scope) = key[2]
              /\ reconcileAccountId(store[id].platformBindings[i].accountId) = key[1] }

\* the owning Talk of a desired peer: the first of its binders in the order of
\* the Talks
OwningTalk(store, key) == IF "t1" \in BindersOf(store, key) THEN "t1" ELSE "t2"

\* the (accountId, peer) a host row routes, peer kind and id normalised
HostRowKey(row) ==
    IF row.match.peer = NoPeer THEN NoKey
    ELSE <<reconcileAccountId(row.match.accountId),
           [kind |-> toLowerCase(trim(row.match.peer.kind)),
            id |-> toUpperCase(trim(row.match.peer.id))]>>

IsSlackRow(row) == toLowerCase(trim(row.match.channel)) = STR_slack

ManagedOrLegacy(row) ==
    \/ startsWith(toLowerCase(trim(row.agentId)), MANAGED_AGENT_PREFIX)
    \/ toLowerCase(trim(row.agentId)) = STR_clawtalk

\* the first n rows are one row per desired peer, each pointing to the managed
\* agent of the owning Talk
DesiredRowsFirst(store, rows, n) ==
    /\ Len(rows) >= n
    /\ { HostRowKey(rows[i]) : i \in 1..n } = DesiredPeers(store)
    /\ \A i \in 1..n :
          /\ IsSlackRow(rows[i])
          /\ rows[i].agentId =
                buildManagedAgentId(idText[OwningTalk(store, HostRowKey(rows[i]))])

OwningTalks(store) == { OwningTalk(store, key) : key \in DesiredPeers(store) }

\* the agents.list entry of the Talk: its managed agent id, its title (or
\* ClawTalk <agent id> without one) and its model (or the default model)
IsAgentOf(agent, talk, cfg) ==
    /\ agent.id = buildManagedAgentId(idText[talk.id])
    /\ agent.name = IF Truthy(talk.topicTitle) THEN talk.topicTitle
                    ELSE STR_ClawTalk_ \o agent.id
    /\ agent.model = IF Truthy(talk.model) THEN talk.model ELSE defaultModelOf(cfg)
    /\ agent.sandbox = "off"

\* C22: the managed agent id of a Talk never changes, two distinct Talks with
\* Slack write bindings never have the same managed agent id, and after
\* reconcileSlackRoutingForTalks each of them has an entry of its own in
\* agents.list, with the title and the model of that Talk.
C22_OwnAgentPerTalk ==
    /\ [][\A id \in TalkIds :
             buildManagedAgentId(idText'[id]) = buildManagedAgentId(idText[id])]_vars
    /\ [](\A t \in OwningTalks(talks), u \in OwningTalks(talks) :
             t # u => buildManagedAgentId(idText[t]) # buildManagedAgentId(idText[u]))
    /\ [][reconcileSlackRoutingForTalks =>
             \E entryOf \in [OwningTalks(talks) -> 1..Len(hostConfig'.agents)] :
                 /\ \A t \in OwningTalks(talks), u \in OwningTalks(talks) :
                       t # u => entryOf[t] # entryOf[u]
                 /\ \A t \in OwningTalks(talks) :
                       IsAgentOf(hostConfig'.agents[entryOf[t]], talks[t], hostConfig)]_vars

\* what holds of C22: the managed agent id of a Talk never changes, and after
\* reconcileSlackRoutingForTalks every Talk whose id shares its first eight
\* characters with no other owning Talk has exactly one entry in agents.list,
\* with its title and its model.
C22_OwnAgentWhenPrefixDiffers ==
    /\ [][\A id \in TalkIds :
             buildManagedAgentId(idText'[id]) = buildManagedAgentId(idText[id])]_vars
    /\ [][reconcileSlackRoutingForTalks =>
             \A t \in OwningTalks(talks) :
                 (\A u \in OwningTalks(talks) \ {t} :
                      slice(idText[u], 0, 8) # slice(idText[t], 0, 8))
                 => Cardinality({ i \in 1..Len(hostConfig'.agents) :
                        IsAgentOf(hostConfig'.agents[i], talks[t], hostConfig) }) = 1]_vars

(***************************************************************************)
(* talk-store.ts: deleteMessages                                           *)
(***************************************************************************)
\* String.prototype.trim on the message ids the callers pass
trimId(id) ==
    CASE id = " m1 " -> "m1"
      [] id = "  " -> ""
      [] OTHER -> id

\* new Set(messageIds.filter(id => typeof id === 'string' && id.trim())
\*                   .map(id => id.trim()))
idSetOf(messageIds) == {trimId(messageIds[i]) : i \in 1..Len(messageIds)} \ {""}

\* deleteMessages up to its first await: getMessages is started (by every
\* path: the early returns read the history for `remaining`)
deleteMessages(messageIdInputs) ==
    \E id \in TalkIds, messageIds \in messageIdInputs :
        /\ id \in usedIds
        /\ InFlight(fsOps) < MaxFsOps
        /\ fsOps' = fsOps (+) SetToBag({FsOp("readHistory", id,
                        [messageIds |-> messageIds,
                         pinsAtStart |-> IF talks[id] = NoTalk THEN {}
                                         ELSE SeqRange(talks[id].pinnedMessageIds)])})
        /\ askedIds' = [askedIds EXCEPT
                           ![id] = @ \cup SeqRange(messageIds) \cup idSetOf(messageIds)]
        /\ UNCHANGED <<talks, usedIds, received, dirs, disk, history, deleted,
                       dmOut, appended>>
        /\ StoreFrameBase

DeleteResult(talkId, messageIds, count, pinned, raced) ==
    [talkId |-> talkId, messageIds |-> messageIds, deleted |-> count,
     pinned |-> pinned, raced |-> raced]

\* getMessages is done. With nothing to delete the call returns; otherwise
\* the surviving messages are computed from what was read and mkdir is started
FsReadHistory ==
    \E op \in BagToSet(fsOps) :
        /\ op.kind = "readHistory"
        /\ IF idSetOf(op.arg.messageIds) = {}
           THEN /\ fsOps' = Done(fsOps, op)
                /\ dmOut' = DeleteResult(op.talkId, op.arg.messageIds, 0,
                                         IF talks[op.talkId] = NoTalk THEN <<>>
                                         ELSE talks[op.talkId].pinnedMessageIds,
                                         FALSE)
           ELSE /\ fsOps' = Replaced(fsOps, op, FsOp("mkdirDelete", op.talkId,
                      [messageIds |-> op.arg.messageIds,
                       pinsAtStart |-> op.arg.pinsAtStart,
                       deleted |-> Len(SelectSeq(history[op.talkId],
                           LAMBDA msg : msg.id \in idSetOf(op.arg.messageIds))),
                       remainingMessages |-> SelectSeq(history[op.talkId],
                           LAMBDA msg : msg.id \notin idSetOf(op.arg.messageIds))]))
                /\ UNCHANGED dmOut
        /\ UNCHANGED <<talks, usedIds, received, dirs, disk, history, deleted,
                       appended, askedIds>>
        /\ StoreFrameBase

\* mkdir of deleteMessages is done; writeFile(history.jsonl) is started
FsMkdirDelete ==
    \E op \in BagToSet(fsOps) :
        /\ op.kind = "mkdirDelete"
        /\ dirs' = dirs \cup {op.talkId}
        /\ fsOps' = Replaced(fsOps, op, FsOp("writeHistory", op.talkId, op.arg))
        /\ UNCHANGED <<talks, usedIds, received, disk, history, deleted>>
        /\ StoreFrame

cleanPins_atStart(pins, idSet, pinsAtStart) ==
    SelectSeq(pins, LAMBDA id : ~(id \in idSet /\ id \in pinsAtStart))
\* meta.pinnedMessageIds.filter(id => !idSet.has(id))
cleanPins(pins, idSet, pinsAtStart) == SelectSeq(pins, LAMBDA id : id \notin idSet)

\* the end of deleteMessages, once the history is rewritten
deleteMessagesEnd(op, rest, pins, left) ==
    /\ dmOut' = DeleteResult(op.talkId, op.arg.messageIds, op.arg.deleted, left,
                    \E id \in idSetOf(op.arg.messageIds) :
                        id \in SeqRange(pins) /\ id \notin op.arg.pinsAtStart)
    /\ IF talks[op.talkId] # NoTalk /\ (op.arg.deleted > 0 \/ Len(left) # Len(pins))
       THEN touchMetaOn(rest, [talks[op.talkId] EXCEPT !.pinnedMessageIds = left],
                        "messages_deleted", FALSE)
       ELSE /\ fsOps' = rest
            /\ UNCHANGED <<talks, received>>

\* writeFile(history.jsonl) is done: the file now holds the survivors of the
\* history read earlier, and the pins are cleaned; on ENOENT the call rejects
FsWriteHistory ==
    \E op \in BagToSet(fsOps) :
        /\ op.kind = "writeHistory"
        /\ IF op.talkId \in dirs
           THEN /\ history' = [history EXCEPT ![op.talkId] = op.arg.remainingMessages]
                /\ LET pins == IF talks[op.talkId] = NoTalk THEN <<>>
                               ELSE talks[op.talkId].pinnedMessageIds
                   IN deleteMessagesEnd(op, Done(fsOps, op), pins,
                          cleanPins(pins, idSetOf(op.arg.messageIds), op.arg.pinsAtStart))
           ELSE /\ fsOps' = Done(fsOps, op)
                /\ UNCHANGED <<talks, received, history, dmOut>>
        /\ UNCHANGED <<usedIds, dirs, disk, deleted, appended, askedIds>>
        /\ StoreFrameBase

\* one Talk with its history: messages appended and deleted, ids pinned
HistoryMessageInputs == {TalkMessage(m, "user", [text |-> "text"]) : m \in MessageIds}
HistoryPinIds == {"m1", " m1 "}
DeleteInputs == { <<>>, <<"m1">>, <<" m1 ">> }

HistoryAppendMessage ==
    \E msg \in HistoryMessageInputs :
        /\ msg.id \notin SeqRange(appended["t1"])
        /\ \A op \in BagToSet(fsOps) :
              op.kind \in {"mkdirAppend", "appendFile"} => op.arg.msg.id # msg.id
        /\ Len(history["t1"]) < MaxHistory
        /\ appendMessageStart("t1", msg)
        /\ UNCHANGED <<talks, usedIds, received, dirs, disk, history, deleted>>
        /\ StoreFrame

HistoryAddPin ==
    \E messageId \in HistoryPinIds :
        /\ talks["t1"] # NoTalk
        /\ messageId \notin SeqRange(talks["t1"].pinnedMessageIds)
        /\ touchMeta([talks["t1"] EXCEPT !.pinnedMessageIds = Append(@, messageId)],
                     "pin_added", FALSE)
        /\ UNCHANGED <<usedIds, dirs, disk, history, deleted>>
        /\ StoreFrame

\* one deleteMessages call at a time is followed
HistoryDeleteMessages ==
    /\ \A op \in BagToSet(fsOps) :
          op.kind \notin {"readHistory", "mkdirDelete", "writeHistory"}
    /\ deleteMessages(DeleteInputs)

HistoryInit ==
    /\ talks = [id \in TalkIds |->
                  IF id = "t1" THEN LoadedTalk(id, <<>>, <<>>) ELSE NoTalk]
    /\ usedIds = {"t1"}
    /\ received = [id \in TalkIds |-> <<>>]
    /\ fsOps = EmptyBag
    /\ dirs = {"t1"}
    /\ disk = talks
    /\ \E old \in {<<>>, << TalkMessage("m1", "user", [text |-> "text"]) >>} :
          /\ history = [id \in TalkIds |-> IF id = "t1" THEN old ELSE <<>>]
          /\ appended = [id \in TalkIds |->
                            IF id = "t1" THEN [i \in 1..Len(old) |-> old[i].id]
                            ELSE <<>>]
    /\ deleted = [id \in TalkIds |-> NoTalk]
    /\ now = 0
    /\ gIn = [none |-> TRUE]
    /\ gOut = "none"
    /\ seenEvents = EmptySeen
    /\ runtimeCounters = [id \in TalkIds |-> 0]
    /\ firstAns = EmptySeen
    /\ rOut = [none |-> TRUE]
    /\ debounceMap = [k \in TalkIds \X JobIds |-> NoEntry]
    /\ runningTalks = {}
    /\ execJobs = {}
    /\ starts = [k \in TalkIds \X JobIds |-> <<>>]
    /\ proxyReq = [none |-> TRUE]
    /\ forward = [none |-> TRUE]
    /\ llmCalls = 0
    /\ slackSends = 0
    /\ observations = [id \in TalkIds |-> <<>>]
    /\ snapshotCache = [id \in TalkIds |-> NoSnapshot]
    /\ selection = [none |-> TRUE]
    /\ timeoutCall = [none |-> TRUE]
    /\ inspected = [none |-> TRUE]
    /\ doctorOut = [none |-> TRUE]
    /\ dmOut = [none |-> TRUE]
    /\ askedIds = [id \in TalkIds |-> {}]
    /\ cleared = 0
    /\ hostConfig = EmptyHostConfig
    /\ idText = IdTextDefault
    /\ replyToEvent = TRUE
    /\ replyCalls = {}
    /\ lastEnd = [id \in TalkIds |-> "none"]

NextHistory ==
    \/ HistoryAppendMessage \/ HistoryDeleteMessages \/ HistoryAddPin
    \/ FsMkdirAppend \/ FsAppendFile \/ FsReadHistory \/ FsMkdirDelete \/ FsWriteHistory
    \/ FsMkdirMeta \/ FsWriteMeta

SpecHistory == HistoryInit /\ [][NextHistory]_vars

(***************************************************************************)
(* Claims about the message history                                        *)
(***************************************************************************)
DeleteCompleted == dmOut # [none |-> TRUE]

\* C13 as stated: after deleteMessages(talkId, ids) completes, no id in ids is
\* in the Talk's pinnedMessageIds
C13_NoGivenIdPinned ==
    DeleteCompleted =>
        \A id \in SeqRange(dmOut.messageIds) : id \notin SeqRange(dmOut.pinned)

\* C13: after deleteMessages(talkId, ids) completes, no id of ids, trimmed of
\* surrounding whitespace, is in the Talk's pinnedMessageIds, also when it was
\* pinned while the delete was in progress
C13_NoTrimmedIdPinned ==
    DeleteCompleted =>
        \A id \in idSetOf(dmOut.messageIds) : id \notin SeqRange(dmOut.pinned)

\* a delete that removed a message whose id was pinned while it was in progress
C13_Witness ==
    /\ DeleteCompleted
    /\ dmOut.deleted > 0
    /\ dmOut.raced

\* the ids of the messages appended to the Talk and never asked to be deleted,
\* in the order in which their appendMessage completed
KeptIds(id) == SelectSeq(appended[id], LAMBDA m : m \notin askedIds[id])

HistoryIds(id) == [i \in 1..Len(history[id]) |-> history[id][i].id]

\* C20: within one Talk every message whose appendMessage completed and whose
\* id was never passed to deleteMessages is in the history, in append order,
\* however the appendMessage and deleteMessages calls interleave.
C20_AppendsSurviveDeletes ==
    \A id \in TalkIds :
        SelectSeq(HistoryIds(id), LAMBDA m : m \in SeqRange(KeptIds(id))) = KeptIds(id)

\* what holds of C20: while no deleteMessages call is between its read and its
\* rewrite of the history, no append is lost
C20_AppendsSurviveOutsideDeletes ==
    \A id \in TalkIds :
        ( /\ dmOut = [none |-> TRUE]
          /\ \A op \in BagToSet(fsOps) : op.kind \notin {"mkdirDelete", "writeHistory"} )
        => SelectSeq(HistoryIds(id), LAMBDA m : m \in SeqRange(KeptIds(id))) = KeptIds(id)

MessageIdsOf(id) == {history[id][i].id : i \in 1..Len(history[id])}

\* C31: in every reachable state, every id in a Talk's pinnedMessageIds is the
\* id of a message in that same Talk's history, for any sequence of
\* appendMessage, addPin, removePin and deleteMessages, and the pin removal of
\* deleteMessages becomes durable together with the history rewrite (a crash
\* never leaves the rewritten log with the old pins).
C31_PinsReferToMessages ==
    \A id \in TalkIds :
        /\ talks[id] # NoTalk
               => SeqRange(talks[id].pinnedMessageIds) \subseteq MessageIdsOf(id)
        /\ (disk[id] # NoFile /\ disk[id] # PartialFile /\ disk[id] # NoTalk)
               => SeqRange(disk[id].pinnedMessageIds) \subseteq MessageIdsOf(id)

\* the second half alone, for pins of messages that were in the history when
\* they were written to talk.json: after a delete has rewritten the log,
\* talk.json still names the deleted message until the write of the metadata
\* that deleteMessages started has completed
C31_RewrittenLogWithOldPins ==
    \E id \in TalkIds :
        /\ dmOut # [none |-> TRUE] /\ dmOut.deleted > 0
        /\ disk[id] # NoFile /\ disk[id] # PartialFile /\ disk[id] # NoTalk
        /\ \E pin \in SeqRange(disk[id].pinnedMessageIds) :
               /\ pin \in SeqRange(appended[id])
               /\ pin \notin MessageIdsOf(id)

(***************************************************************************)
(* index.ts: EventDispatcher                                               *)
(***************************************************************************)
\* job-scheduler.ts is not part of the sources at hand: the debounce is the
\* 30 s its description gives, and parseEventTrigger reads `on <scope>`
EVENT_JOB_DEBOUNCE_MS == 30 * 1000

STR_on_space == <<"o", "n", " ">>
STR_on_c1    == <<"o", "n", " ", "c", "1">>
NoScope == <<>>

parseEventTrigger(schedule) ==
    IF startsWith(toLowerCase(trim(schedule)), STR_on_space)
    THEN trim(Drop(trim(schedule), Len(STR_on_space)))
    ELSE NoScope

NoBinding == [none |-> TRUE]

\* bindings.find(b => b.scope.toLowerCase() === scope.toLowerCase())
RECURSIVE findBindingByScope(_, _)
findBindingByScope(bindings, scope) ==
    IF bindings = <<>> THEN NoBinding
    ELSE IF toLowerCase(Head(bindings).scope) = toLowerCase(scope) THEN Head(bindings)
    ELSE findBindingByScope(Tail(bindings), scope)

platformMatches(binding, ctx) ==
    /\ binding # NoBinding
    /\ toLowerCase(binding.platform) = toLowerCase(ctx.channelId)

\* TalkStore.getAllActiveJobs: the Talks in the order of the map, each with its
\* active jobs in the order of meta.jobs
activeJobsOf(store, id) ==
    IF store[id] = NoTalk THEN <<>>
    ELSE LET active == SelectSeq(store[id].jobs, LAMBDA job : job.active)
         IN [i \in 1..Len(active) |-> [talkId |-> id, job |-> active[i]]]

getAllActiveJobs(store) == activeJobsOf(store, "t1") \o activeJobsOf(store, "t2")

\* the tests of handleMessageReceived that look at the job and the Talk only
jobMatches(store, entry, ctx) ==
    /\ parseEventTrigger(entry.job.schedule) # NoScope
    /\ entry.job.type = "event"
    /\ store[entry.talkId] # NoTalk
    /\ platformMatches(findBindingByScope(store[entry.talkId].platformBindings,
                                          parseEventTrigger(entry.job.schedule)), ctx)

debounceKey(talkId, jobId) == <<talkId, jobId>>

debounced(debounceEntry, time) ==
    debounceEntry # NoEntry /\ time - debounceEntry < EVENT_JOB_DEBOUNCE_MS

talkRunning_never(running, talkId) == FALSE
talkRunning(running, talkId) == talkId \in running

\* the dispatcher after one job of the loop has fired at the given time
fireJob(d, key, time) ==
    [debounce |-> [d.debounce EXCEPT ![key] = time],
     running |-> d.running \cup {key[1]},
     fired |-> d.fired \cup {key}]

considerJob(d, store, entry, ctx, key, time) ==
    IF /\ jobMatches(store, entry, ctx)
       /\ ~debounced(d.debounce[key], time)
       /\ ~talkRunning(d.running, entry.talkId)
    THEN fireJob(d, key, time)
    ELSE d

\* the loop of handleMessageReceived over allJobs; no await separates its
\* iterations, so the whole loop is one step
RECURSIVE dispatchJobs(_, _, _, _, _)
dispatchJobs(entries, store, ctx, time, d) ==
    IF entries = <<>> THEN d
    ELSE dispatchJobs(Tail(entries), store, ctx, time,
                      considerJob(d, store, Head(entries), ctx,
                                  debounceKey(Head(entries).talkId, Head(entries).job.id),
                                  time))

LastTwo(s) == IF Len(s) > 2 THEN SubSeq(s, Len(s) - 1, Len(s)) ELSE s

DispatchFrame == UNCHANGED <<gIn, gOut, talks, usedIds, received, fsOps, dirs, disk,
                             history, deleted, seenEvents, runtimeCounters, firstAns,
                             rOut, proxyReq, forward, llmCalls, slackSends, affinityVars, hostVars, probeVars, execVars, auditVars>>

\* const canReply = matchingBinding.permission === 'write' || ... === 'read+write'
canReply_always(binding) == TRUE
canReply(binding) == binding.permission \in {STR_write, STR_read_write}

\* the binding handleMessageReceived matched for the job fired
matchingBindingOf(store, key) ==
    LET job == CHOOSE job \in SeqRange(store[key[1]].jobs) : job.id = key[2]
    IN findBindingByScope(store[key[1]].platformBindings, parseEventTrigger(job.schedule))

\* the executeEventJob call of a job fired: its arguments and how far it is
ExecJob(key, time, event, binding) ==
    [talkId |-> key[1], jobId |-> key[2], startedAt |-> time,
     timestamp |-> event.timestamp, permission |-> binding.permission,
     canReply |-> canReply(binding), stage |-> "executeJob"]

dispatched(d, event) ==
    /\ debounceMap' = d.debounce
    /\ runningTalks' = d.running
    /\ execJobs' = execJobs \cup
           {ExecJob(k, now, event, matchingBindingOf(talks, k)) : k \in d.fired}
    /\ starts' = [k \in DOMAIN starts |->
                     IF k \in d.fired THEN LastTwo(Append(starts[k], now))
                     ELSE starts[k]]

MessagePlatforms == {STR_Slack, STR_telegram}

\* event.timestamp: a time a Date can hold (an absent one is replaced by the
\* current time), or a number it cannot hold (beyond 8.64e15 ms), for which
\* toISOString throws a RangeError
EventTimestamps == {"date", "invalid"}

handleMessageReceivedOf(channelId, timestamp) ==
        /\ dispatched(dispatchJobs(getAllActiveJobs(talks), talks,
                                   [channelId |-> channelId], now,
                                   [debounce |-> debounceMap, running |-> runningTalks,
                                    fired |-> {}]),
                      [timestamp |-> timestamp])
        /\ UNCHANGED now
        /\ DispatchFrame

handleMessageReceived ==
    \E channelId \in MessagePlatforms, timestamp \in EventTimestamps :
        handleMessageReceivedOf(channelId, timestamp)

\* executeEventJob settles, by its result or by its exception, and the
\* finally of its caller runs; executeJob and replyToEvent do not touch the
\* dispatcher
executeEventJob_finally ==
    \E job \in execJobs :
        /\ execJobs' = execJobs \ {job}
        /\ runningTalks' = runningTalks \ {job.talkId}
        /\ UNCHANGED <<now, debounceMap, starts>>
        /\ DispatchFrame

cleanupCutoff_short(time) == time - EVENT_JOB_DEBOUNCE_MS \div 10
cleanupCutoff(time) == time - EVENT_JOB_DEBOUNCE_MS * 10

cleanup ==
    /\ debounceMap' = [k \in DOMAIN debounceMap |->
                          IF debounceMap[k] # NoEntry /\ debounceMap[k] < cleanupCutoff(now)
                          THEN NoEntry ELSE debounceMap[k]]
    /\ UNCHANGED <<now, runningTalks, execJobs, starts>>
    /\ DispatchFrame

\* Date.now() moves on: by half a debounce, MaxTicks times on either side of
\* a pause of ten debounces
DispatchTick ==
    \E step \in {EVENT_JOB_DEBOUNCE_MS \div 2, EVENT_JOB_DEBOUNCE_MS * 10} :
        /\ step < EVENT_JOB_DEBOUNCE_MS =>
              now % (EVENT_JOB_DEBOUNCE_MS * 10) < MaxTicks * (EVENT_JOB_DEBOUNCE_MS \div 2)
        /\ step > EVENT_JOB_DEBOUNCE_MS => now < EVENT_JOB_DEBOUNCE_MS * 10
        /\ now' = now + step
        /\ UNCHANGED <<debounceMap, runningTalks, execJobs, starts>>
        /\ DispatchFrame

EventJob(id, type, schedule) ==
    [id |-> id, type |-> type, schedule |-> schedule, active |-> TRUE]

DispatchJobInputs ==
    { << EventJob("j1", "event", STR_on_C1), EventJob("j2", "event", STR_on_c1) >>,
      << EventJob("j1", "recurring", STR_on_C1), EventJob("j2", "event", STR_on_C1) >> }

DispatchBindingInputs == { <<rowChan>>, <<rowName, rowRead>> }

\* two Talks as loadAllAsync leaves them: t1 with two jobs on one channel, t2
\* with one
DispatchInit ==
    /\ \E jobs1 \in DispatchJobInputs, b2 \in DispatchBindingInputs :
          talks = [id \in TalkIds |->
                      IF id = "t1"
                      THEN [LoadedTalk(id, <<rowChan>>, <<>>) EXCEPT !.jobs = jobs1]
                      ELSE [LoadedTalk(id, b2, <<>>) EXCEPT
                               !.jobs = << EventJob("j3", "event", STR_on_hash_g) >>]]
    /\ usedIds = TalkIds
    /\ received = [id \in TalkIds |-> <<>>]
    /\ fsOps = EmptyBag
    /\ dirs = TalkIds
    /\ disk = talks
    /\ history = [id \in TalkIds |-> <<>>]
    /\ deleted = [id \in TalkIds |-> NoTalk]
    /\ OtherInit

NextDispatch == handleMessageReceived \/ executeEventJob_finally \/ cleanup \/ DispatchTick

SpecDispatch == DispatchInit /\ [][NextDispatch]_vars

(***************************************************************************)
(* index.ts: EventDispatcher.executeEventJob                               *)
(***************************************************************************)
\* how the awaited executeJob can settle: a report with status success, a
\* report with another status, no report, an exception; with a timestamp no
\* Date can hold, toISOString throws before the try and executeJob is not
\* called
JobOutcomes(job) ==
    IF job.timestamp = "invalid" THEN {"rejected"}
    ELSE {"success", "failed", "no-report", "throws"}

\* how the awaited replyToEvent can settle: true, false, an exception
ReplyOutcomes == {"sent", "not-sent", "reply-throws"}

ExecuteFrame ==
    UNCHANGED <<now, gIn, gOut, talks, usedIds, received, fsOps, dirs, disk, history,
                deleted, seenEvents, runtimeCounters, firstAns, rOut, debounceMap,
                starts, proxyReq, forward, llmCalls, slackSends, affinityVars,
                hostVars, probeVars, replyToEvent, auditVars>>

finallyRelease_onReturn(job, how) ==
    /\ execJobs' = execJobs \ {job}
    /\ runningTalks' = IF how \in {"rejected", "reply-throws"} THEN runningTalks
                       ELSE runningTalks \ {job.talkId}
    /\ lastEnd' = [lastEnd EXCEPT ![job.talkId] = how]

\* executeEventJob has settled and the finally of handleMessageReceived runs
finallyRelease(job, how) ==
    /\ execJobs' = execJobs \ {job}
    /\ runningTalks' = runningTalks \ {job.talkId}
    /\ lastEnd' = [lastEnd EXCEPT ![job.talkId] = how]

ReplyCall(job, status) ==
    [talkId |-> job.talkId, jobId |-> job.jobId, permission |-> job.permission,
     status |-> status]

\* executeEventJob up to its second await: executeJob settles, and either
\* replyToEvent is called or the function returns
executeJobSettles ==
    \E job \in execJobs :
        /\ job.stage = "executeJob"
        /\ \E outcome \in JobOutcomes(job) :
              IF outcome = "success" /\ job.canReply /\ replyToEvent
              THEN /\ execJobs' = (execJobs \ {job}) \cup {[job EXCEPT !.stage = "replyToEvent"]}
                   /\ replyCalls' = replyCalls \cup {ReplyCall(job, outcome)}
                   /\ UNCHANGED <<runningTalks, lastEnd>>
              ELSE /\ finallyRelease(job, outcome)
                   /\ UNCHANGED replyCalls
        /\ ExecuteFrame

\* the rest of executeEventJob: replyToEvent settles, its exception is caught
replyToEventSettles ==
    \E job \in execJobs :
        /\ job.stage = "replyToEvent"
        /\ \E outcome \in ReplyOutcomes : finallyRelease(job, outcome)
        /\ UNCHANGED replyCalls
        /\ ExecuteFrame

ExecuteBindingInputs == { <<rowChan>>, <<rowRead>>, <<rowChanTg, rowChan>> }

\* one Talk with an event job on C1, with and without a replyToEvent callback
ExecuteInit ==
    /\ \E b1 \in ExecuteBindingInputs :
          talks = [id \in TalkIds |->
                      IF id = "t1"
                      THEN [LoadedTalk(id, b1, <<>>) EXCEPT
                               !.jobs = << EventJob("j1", "event", STR_on_c1) >>]
                      ELSE NoTalk]
    /\ usedIds = {"t1"}
    /\ received = [id \in TalkIds |-> <<>>]
    /\ fsOps = EmptyBag
    /\ dirs = {"t1"}
    /\ disk = talks
    /\ history = [id \in TalkIds |-> <<>>]
    /\ deleted = [id \in TalkIds |-> NoTalk]
    /\ idText = IdTextDefault
    /\ replyToEvent \in BOOLEAN
    /\ RestInit

NextExecute ==
    handleMessageReceived \/ executeJobSettles \/ replyToEventSettles \/ DispatchTick

SpecExecute == ExecuteInit /\ [][NextExecute]_vars

(***************************************************************************)
(* Claims about the EventDispatcher                                        *)
(***************************************************************************)
Executing(talkId) == {job \in execJobs : job.talkId = talkId}

\* C7: at any time at most one event-triggered job is executing per Talk,
\* also when one message matches several jobs of the same Talk and when
\* messages arrive while a job is in flight
C7_OneEventJobPerTalk ==
    \A talkId \in TalkIds : Cardinality(Executing(talkId)) <= 1

\* a job of t1 is executing while the other job of t1, which the same
\* messages match, is past its debounce or has never fired, and t2 runs too
C7_Witness ==
    /\ \E job \in Executing("t1") :
          /\ job.jobId = "j1"
          /\ now - job.startedAt >= EVENT_JOB_DEBOUNCE_MS
          /\ debounceMap[debounceKey("t1", "j2")] = NoEntry
          /\ Len(talks["t1"].jobs) = 2 /\ talks["t1"].jobs[2].type = "event"
    /\ Executing("t2") # {}

\* C8: two starts of the same event job (same talkId and jobId) are never less
\* than EVENT_JOB_DEBOUNCE_MS apart, under any interleaving of messages, job
\* completions and cleanup() calls
C8_StartsDebounced ==
    \A k \in DOMAIN starts :
        Len(starts[k]) = 2 => starts[k][2] - starts[k][1] >= EVENT_JOB_DEBOUNCE_MS

\* a job started twice exactly one debounce apart, and a job started again
\* after cleanup() dropped its entry
C8_Witness ==
    /\ \E k \in DOMAIN starts :
          Len(starts[k]) = 2 /\ starts[k][2] - starts[k][1] = EVENT_JOB_DEBOUNCE_MS
    /\ \E k \in DOMAIN starts :
          /\ Len(starts[k]) = 2
          /\ starts[k][2] - starts[k][1] > EVENT_JOB_DEBOUNCE_MS * 10

\* the Talk has an active event job the message of the platform matches and
\* whose debounce window is over
StartableJob(talkId, channelId) ==
    /\ talks[talkId] # NoTalk
    /\ \E i \in 1..Len(talks[talkId].jobs) :
          /\ talks[talkId].jobs[i].active
          /\ jobMatches(talks, [talkId |-> talkId, job |-> talks[talkId].jobs[i]],
                        [channelId |-> channelId])
          /\ ~debounced(debounceMap[debounceKey(talkId, talks[talkId].jobs[i].id)], now)

\* handleMessageReceived, called with a message of the platform, starts an
\* event job of the Talk
StartsJobOf(talkId, channelId, timestamp) ==
    LET d == dispatchJobs(getAllActiveJobs(talks), talks, [channelId |-> channelId], now,
                          [debounce |-> debounceMap, running |-> runningTalks,
                           fired |-> {}])
    IN /\ \E key \in d.fired : key[1] = talkId
       /\ talkId \in d.running

\* C23: when an event job the dispatcher started ends (by a report of success
\* or of failure, by an exception, or with its reply delivery failing), the
\* running flag of its Talk is cleared; the flag is only ever set while a job
\* of the Talk executes, and a matching message that arrives after a job has
\* ended and outside the debounce window starts an event job of the Talk.
C23_FlagClearedWhenJobEnds ==
    /\ [][\A job \in execJobs :
             (\A other \in execJobs' : other.talkId # job.talkId)
             => job.talkId \notin runningTalks']_vars
    /\ [](\A talkId \in runningTalks : Executing(talkId) # {})
    /\ [](\A channelId \in MessagePlatforms, timestamp \in EventTimestamps,
             talkId \in TalkIds :
             ( /\ lastEnd[talkId] # "none"
               /\ Executing(talkId) = {}
               /\ StartableJob(talkId, channelId) )
             => StartsJobOf(talkId, channelId, timestamp))

\* the job of t1 runs again after its earlier run ended with the reply
\* delivery throwing
C23_Witness ==
    /\ lastEnd["t1"] = "reply-throws"
    /\ Executing("t1") # {}
    /\ "t1" \in runningTalks
    /\ Len(starts[debounceKey("t1", "j1")]) = 2

\* the same after a run that was rejected before its try block
C23_WitnessRejected ==
    /\ lastEnd["t1"] = "rejected"
    /\ Executing("t1") # {}
    /\ Len(starts[debounceKey("t1", "j1")]) = 2

\* C24: replyToEvent is called for an event job only when the report of the
\* job has status success and the binding matched for the job has permission
\* write or read+write; a job matched through a binding with permission read
\* runs, and no reply is ever delivered for it.
C24_ReplyOnlyWithWritePermission ==
    /\ \A call \in replyCalls :
          /\ call.status = "success"
          /\ call.permission \in {STR_write, STR_read_write}
          /\ matchingBindingOf(talks, <<call.talkId, call.jobId>>).permission = call.permission
    /\ \A job \in execJobs :
          job.stage = "replyToEvent" =>
              /\ job.permission \in {STR_write, STR_read_write}
              /\ ReplyCall(job, "success") \in replyCalls
    /\ \A talkId \in TalkIds :
          lastEnd[talkId] \in ReplyOutcomes => \E call \in replyCalls : call.talkId = talkId

\* a reply was delivered for the job of t1, matched through a binding with
\* permission read+write
C24_Witness ==
    /\ lastEnd["t1"] = "sent"
    /\ \E call \in replyCalls : call.talkId = "t1" /\ call.permission = STR_read_write

\* the job of t1, matched through a binding with permission read, ran with
\* success and no reply was delivered, a callback being there
C24_WitnessRead ==
    /\ lastEnd["t1"] = "success"
    /\ replyToEvent
    /\ replyCalls = {}
    /\ matchingBindingOf(talks, <<"t1", "j1">>).permission = STR_read

\* the active event jobs of the Talk with a schedule 'on <scope>'
EventJobScopes(talkId) ==
    { parseEventTrigger(talks[talkId].jobs[i].schedule) :
        i \in { n \in 1..Len(talks[talkId].jobs) :
                  /\ talks[talkId].jobs[n].active
                  /\ talks[talkId].jobs[n].type = "event"
                  /\ parseEventTrigger(talks[talkId].jobs[n].schedule) # NoScope } }

\* some binding of the Talk has the scope and the platform, letter case aside
SomeBindingMatches(talkId, scope, channelId) ==
    \E i \in 1..Len(talks[talkId].platformBindings) :
        /\ toLowerCase(talks[talkId].platformBindings[i].scope) = toLowerCase(scope)
        /\ toLowerCase(talks[talkId].platformBindings[i].platform) = toLowerCase(channelId)

\* the first binding of the Talk with the scope has the platform
FirstBindingMatches(talkId, scope, channelId) ==
    \E i \in 1..Len(talks[talkId].platformBindings) :
        /\ toLowerCase(talks[talkId].platformBindings[i].scope) = toLowerCase(scope)
        /\ toLowerCase(talks[talkId].platformBindings[i].platform) = toLowerCase(channelId)
        /\ \A j \in 1..(i - 1) :
              toLowerCase(talks[talkId].platformBindings[j].scope) # toLowerCase(scope)

\* no job of the Talk runs and none of its debounce windows is open
NothingHoldsBack(talkId) ==
    /\ talkId \notin runningTalks
    /\ \A jobId \in JobIds : ~debounced(debounceMap[debounceKey(talkId, jobId)], now)

\* C25: a message_received event of platform ctx.channelId is matched by an
\* active event job 'on <scope>' if and only if some binding of its Talk has
\* that scope and that platform, letter case aside, also when the Talk has
\* two bindings of the scope on different platforms: with nothing holding the
\* Talk back, handleMessageReceived starts a job of it exactly then.
C25_SomeBindingDecides ==
    \A channelId \in MessagePlatforms, timestamp \in EventTimestamps, talkId \in TalkIds :
        (talks[talkId] # NoTalk /\ NothingHoldsBack(talkId))
        => ( StartsJobOf(talkId, channelId, timestamp)
             <=> \E scope \in EventJobScopes(talkId) :
                     SomeBindingMatches(talkId, scope, channelId) )

\* what holds of C25: the job is matched if and only if the first binding of
\* the Talk that has the scope also has the platform
C25_FirstBindingDecides ==
    \A channelId \in MessagePlatforms, timestamp \in EventTimestamps, talkId \in TalkIds :
        (talks[talkId] # NoTalk /\ NothingHoldsBack(talkId))
        => ( StartsJobOf(talkId, channelId, timestamp)
             <=> \E scope \in EventJobScopes(talkId) :
                     FirstBindingMatches(talkId, scope, channelId) )

(***************************************************************************)
(* tool-affinity.ts: ToolAffinityStore                                     *)
(***************************************************************************)
WARMUP_THRESHOLD == 3
SLIDING_WINDOW_SIZE == 50
EXPLORATION_RATE == 20
\* MIN_AFFINITY_THRESHOLD is 0.1: count / total >= 0.1 is count * 10 >= total
MIN_AFFINITY_THRESHOLD_INV == 10
CACHE_TTL_MS == 60000

COLD_START_INTENTS == {"study", "state_tracking", "conversation", "model_meta"}

STR_state_    == <<"s", "t", "a", "t", "e", "_">>
STR_state_a   == <<"s", "t", "a", "t", "e", "_", "a">>
STR_State_a   == <<"S", "t", "a", "t", "e", "_", "a">>
STR_web       == <<"w", "e", "b">>

\* COLD_START_BASELINE_PATTERN = /^state_/
matchesBaselinePattern(tool) == startsWith(tool, STR_state_)

Observation(intent, usedTools) == [intent |-> intent, usedTools |-> usedTools]

\* allObs.slice(-SLIDING_WINDOW_SIZE)
lastOf(s, n) == IF Len(s) > n THEN SubSeq(s, Len(s) - n + 1, Len(s)) ELSE s

RECURSIVE countIn(_, _)
countIn(tools, key) ==
    IF tools = <<>> THEN 0
    ELSE (IF toLowerCase(Head(tools)) = key THEN 1 ELSE 0) + countIn(Tail(tools), key)

RECURSIVE countTool(_, _)
countTool(window, key) ==
    IF window = <<>> THEN 0
    ELSE countIn(Head(window).usedTools, key) + countTool(Tail(window), key)

usedKeys(window) ==
    UNION { {toLowerCase(window[i].usedTools[j]) : j \in 1..Len(window[i].usedTools)} :
            i \in 1..Len(window) }

intentFrequency(intent, window) ==
    [intent |-> intent,
     totalObservations |-> Len(window),
     noToolCount |-> Len(SelectSeq(window, LAMBDA obs : obs.usedTools = <<>>)),
     toolCounts |-> [key \in usedKeys(window) |-> countTool(window, key)]]

\* computeSnapshot: one IntentToolFrequency per intent the log holds
computeSnapshot(log) ==
    [intent \in {log[i].intent : i \in 1..Len(log)} |->
        intentFrequency(intent,
                        lastOf(SelectSeq(log, LAMBDA obs : obs.intent = intent),
                               SLIDING_WINDOW_SIZE))]

\* snapshot?.intents.find(i => i.intent === intent)
NoIntentData == [none |-> TRUE]
intentDataOf(snapshot, intent) ==
    IF snapshot # NoSnapshot /\ intent \in DOMAIN snapshot THEN snapshot[intent]
    ELSE NoIntentData

\* Math.random() is given in hundredths
explores(roll) == EXPLORATION_RATE > 0 /\ roll * EXPLORATION_RATE < 100

hasEnoughData_strict(intentData) ==
    intentData # NoIntentData /\ intentData.totalObservations > WARMUP_THRESHOLD

hasEnoughData(intentData) ==
    intentData # NoIntentData /\ intentData.totalObservations >= WARMUP_THRESHOLD

resolvePhase(intent, snapshot, roll) ==
    IF ~hasEnoughData(intentDataOf(snapshot, intent)) /\ intent \notin COLD_START_INTENTS
    THEN "warmup"
    ELSE IF explores(roll) THEN "exploration"
    ELSE "learned"

Selection(phase, selectedTools, prunedTools, reason) ==
    [phase |-> phase, selectedTools |-> selectedTools, prunedTools |-> prunedTools,
     reason |-> reason]

coldStartBaseline(policyAllowedTools) ==
    SelectSeq(policyAllowedTools, matchesBaselinePattern)

hasAffinity(intentData, tool) ==
    /\ toLowerCase(tool) \in DOMAIN intentData.toolCounts
    /\ intentData.toolCounts[toLowerCase(tool)] * MIN_AFFINITY_THRESHOLD_INV
           >= intentData.totalObservations

\* the learned phase of selectTools
selectLearned(intent, policyAllowedTools, intentData) ==
    IF intentData = NoIntentData
    THEN IF intent \in COLD_START_INTENTS
         THEN Selection("learned", coldStartBaseline(policyAllowedTools),
                        SelectSeq(policyAllowedTools,
                                  LAMBDA t : ~matchesBaselinePattern(t)),
                        "cold-start")
         ELSE Selection("warmup", policyAllowedTools, <<>>, "no affinity data")
    ELSE Selection("learned",
                   SelectSeq(policyAllowedTools, LAMBDA t : hasAffinity(intentData, t)),
                   SelectSeq(policyAllowedTools, LAMBDA t : ~hasAffinity(intentData, t)),
                   "learned")

selectByPhase(phase, intent, policyAllowedTools, snapshot) ==
    IF phase \in {"warmup", "exploration"}
    THEN Selection(phase, policyAllowedTools, <<>>, phase)
    ELSE selectLearned(intent, policyAllowedTools, intentDataOf(snapshot, intent))

selectTools(intent, policyAllowedTools, snapshot, roll) ==
    selectByPhase(resolvePhase(intent, snapshot, roll), intent, policyAllowedTools,
                  snapshot)

MaxObservations == 3    \* lines of one observations.jsonl

AffinityFrame == UNCHANGED <<gIn, gOut, talks, usedIds, received, fsOps, dirs, disk,
                             history, deleted, seenEvents, runtimeCounters, firstAns,
                             rOut, debounceMap, runningTalks, execJobs, starts,
                             proxyReq, forward, llmCalls, slackSends, hostVars, probeVars, execVars, auditVars>>

AffinityTalkIds == {"t1"}
AffinityIntents == {"study", "file_ops"}
\* params.coldStartBaseline of a caller: <<>> when absent, else <<the tool list>>;
\* selectTools destructures intent, policyAllowedTools and snapshot only
BaselineInputs == { <<>>, << <<STR_web>> >> }
UsedToolsInputs == { <<>>, <<STR_State_a>> }
PolicyAllowedInputs == { <<STR_state_a, STR_State_a, STR_web>> }
\* Math.random() in hundredths: below, at and above 1 / EXPLORATION_RATE
Rolls == {0, 5, 50}

\* appendFileSync of one line, then snapshotCache.delete(talkId)
recordObservation ==
    \E talkId \in AffinityTalkIds, intent \in AffinityIntents, used \in UsedToolsInputs :
        /\ Len(observations[talkId]) < MaxObservations
        /\ observations' = [observations EXCEPT
                                ![talkId] = Append(@, Observation(intent, used))]
        /\ snapshotCache' = [snapshotCache EXCEPT ![talkId] = NoSnapshot]
        /\ UNCHANGED <<now, selection, timeoutCall>>
        /\ AffinityFrame

cacheFresh(cached, time) == cached # NoSnapshot /\ time - cached.cachedAt < CACHE_TTL_MS

\* getSnapshot: the snapshot returned, NoSnapshot for undefined
getSnapshot(cached, log, time) ==
    IF cacheFresh(cached, time) THEN cached.snapshot
    ELSE IF log = <<>> THEN NoSnapshot
    ELSE computeSnapshot(log)

\* getSnapshot: the cache entry it leaves
cacheAfter(cached, log, time) ==
    IF cacheFresh(cached, time) \/ log = <<>> THEN cached
    ELSE [snapshot |-> computeSnapshot(log), cachedAt |-> time]

recordedFor(log, intent) == SelectSeq(log, LAMBDA obs : obs.intent = intent)

\* a caller takes the snapshot of the Talk and selects the tools of a request
SelectToolsCall ==
    \E talkId \in AffinityTalkIds, intent \in AffinityIntents,
       policyAllowedTools \in PolicyAllowedInputs, roll \in Rolls,
       baseline \in BaselineInputs :
        /\ snapshotCache' = [snapshotCache EXCEPT
               ![talkId] = cacheAfter(snapshotCache[talkId], observations[talkId], now)]
        /\ selection' =
               [intent |-> intent, policyAllowedTools |-> policyAllowedTools,
                roll |-> roll, coldStartBaseline |-> baseline,
                recorded |-> recordedFor(observations[talkId], intent),
                result |-> selectTools(intent, policyAllowedTools,
                                       getSnapshot(snapshotCache[talkId],
                                                   observations[talkId], now),
                                       roll)]
        /\ UNCHANGED <<now, observations, timeoutCall>>
        /\ AffinityFrame

AffinityTick ==
    /\ now < MaxTicks * (CACHE_TTL_MS \div 2)
    /\ now' = now + CACHE_TTL_MS \div 2
    /\ UNCHANGED affinityVars
    /\ AffinityFrame

NextAffinity == recordObservation \/ SelectToolsCall \/ AffinityTick

SpecAffinity == Init /\ [][NextAffinity]_vars

(***************************************************************************)
(* tool-affinity.ts: computeAffinityTimeout                                *)
(***************************************************************************)
Min(a, b) == IF a <= b THEN a ELSE b

TIMEOUT_NO_TOOLS_MS == 60000
TIMEOUT_PER_TOOL_MS == 20000

\* params carries phase, toolCount and baseTimeoutMs; a minTimeoutMs a caller
\* adds (<<>> when absent, else <<ms>>) is a property the function never reads
computeAffinityTimeout(params) ==
    IF params.phase = "warmup" \/ params.phase = "exploration"
    THEN params.baseTimeoutMs
    ELSE Min(params.baseTimeoutMs,
             TIMEOUT_NO_TOOLS_MS + params.toolCount * TIMEOUT_PER_TOOL_MS)

AffinityPhases == {"warmup", "learned", "exploration"}
MaxToolCount == 5
ManyTools == 17
ToolCounts == (0..MaxToolCount) \cup {ManyTools}
BaseTimeouts == {100000, 240000}
MinTimeouts == { <<>>, <<120000>>, <<300000>> }

TimeoutParams ==
    [phase : AffinityPhases, toolCount : ToolCounts, baseTimeoutMs : BaseTimeouts,
     minTimeoutMs : MinTimeouts]

ComputeAffinityTimeoutCall ==
    \E params \in TimeoutParams :
        /\ timeoutCall' = [params |-> params, result |-> computeAffinityTimeout(params)]
        /\ UNCHANGED <<now, observations, snapshotCache, selection>>
        /\ AffinityFrame

NextTimeout == ComputeAffinityTimeoutCall

SpecTimeout == Init /\ [][NextTimeout]_vars

(***************************************************************************)
(* Claims about the ToolAffinityStore                                      *)
(***************************************************************************)
Selected == selection # [none |-> TRUE]

\* C11: with fewer than WARMUP_THRESHOLD recorded observations for an intent,
\* a non-empty cold-start baseline and a non-exploration roll, selectTools
\* returns phase learned with selectedTools equal to the baseline intersected
\* with the policy-allowed tools, even when every recorded observation has
\* usedTools = []
C11_BaselineUntilThreshold ==
    ( /\ Selected
      /\ Len(selection.recorded) < WARMUP_THRESHOLD
      /\ selection.intent \in COLD_START_INTENTS
      /\ coldStartBaseline(selection.policyAllowedTools) # <<>>
      /\ ~explores(selection.roll) )
    => /\ selection.result.phase = "learned"
       /\ selection.result.selectedTools = coldStartBaseline(selection.policyAllowedTools)

AllUnused(recorded) == \A i \in 1..Len(recorded) : recorded[i].usedTools = <<>>

C27_WitnessWarmup ==
    /\ Selected
    /\ selection.intent = "file_ops"
    /\ Len(selection.recorded) = WARMUP_THRESHOLD - 1
    /\ selection.result.phase = "warmup"
    /\ Len(selection.result.selectedTools) = 3

baselineOf(arg) == arg[1]

inBaseline(tool, arg) == \E i \in 1..Len(baselineOf(arg)) : baselineOf(arg)[i] = tool

\* C28: when an intent has no recorded observations and a cold-start baseline
\* is supplied, selectTools on a non-exploration roll returns phase learned
\* with selectedTools = policyAllowed intersected with the baseline and
\* prunedTools = the remaining policy-allowed tools, for cold-start intents
\* and for every other intent alike.
C28_SuppliedBaselineSelected ==
    ( /\ Selected
      /\ selection.recorded = <<>>
      /\ selection.coldStartBaseline # <<>>
      /\ ~explores(selection.roll) )
    => /\ selection.result.phase = "learned"
       /\ selection.result.selectedTools =
              SelectSeq(selection.policyAllowedTools,
                        LAMBDA t : inBaseline(t, selection.coldStartBaseline))
       /\ selection.result.prunedTools =
              SelectSeq(selection.policyAllowedTools,
                        LAMBDA t : ~inBaseline(t, selection.coldStartBaseline))

\* what selectTools does without recorded observations of the intent, whatever
\* baseline is supplied: warmup with every tool for an intent outside
\* COLD_START_INTENTS, and for a cold-start intent (snapshot of the Talk
\* without an entry for it) the tools named state_*
C28_PatternBaselineForColdStartOnly ==
    ( /\ Selected
      /\ selection.recorded = <<>>
      /\ ~explores(selection.roll) )
    => IF selection.intent \in COLD_START_INTENTS
       THEN /\ selection.result.phase = "learned"
            /\ selection.result.selectedTools =
                   SelectSeq(selection.policyAllowedTools, matchesBaselinePattern)
       ELSE /\ selection.result.phase = "warmup"
            /\ selection.result.selectedTools = selection.policyAllowedTools

TimeoutCalled == timeoutCall # [none |-> TRUE]

\* an absent minTimeoutMs counts as no floor
floorOf(minTimeoutMs) == IF minTimeoutMs = <<>> THEN 0 ELSE minTimeoutMs[1]

scaledTimeout(toolCount) == TIMEOUT_NO_TOOLS_MS + TIMEOUT_PER_TOOL_MS * toolCount

\* C26: computeAffinityTimeout returns baseTimeoutMs in phases warmup and
\* exploration, and in phase learned returns
\* min(baseTimeoutMs, max(minTimeoutMs, 60000 + 20000 * toolCount)), an absent
\* minTimeoutMs counting as no floor; the result never exceeds baseTimeoutMs
\* and in learned phase is never below min(baseTimeoutMs, minTimeoutMs).
C26_TimeoutScaledWithFloor ==
    TimeoutCalled =>
        LET p == timeoutCall.params
            r == timeoutCall.result
        IN /\ p.phase \in {"warmup", "exploration"} => r = p.baseTimeoutMs
           /\ p.phase = "learned" =>
                  r = Min(p.baseTimeoutMs,
                          Max(floorOf(p.minTimeoutMs), scaledTimeout(p.toolCount)))
           /\ r <= p.baseTimeoutMs
           /\ p.phase = "learned" => r >= Min(p.baseTimeoutMs, floorOf(p.minTimeoutMs))

\* what the function does: the same without any floor, whatever minTimeoutMs
\* the caller passes
C26_TimeoutScaledWithoutFloor ==
    TimeoutCalled =>
        LET p == timeoutCall.params
            r == timeoutCall.result
        IN /\ p.phase \in {"warmup", "exploration"} => r = p.baseTimeoutMs
           /\ p.phase = "learned" =>
                  r = Min(p.baseTimeoutMs, scaledTimeout(p.toolCount))
           /\ r <= p.baseTimeoutMs

\* a learned-phase call whose floor is above the scaled timeout and below the
\* base timeout
C26_FloorAboveScaled ==
    /\ TimeoutCalled
    /\ timeoutCall.params.phase = "learned"
    /\ scaledTimeout(timeoutCall.params.toolCount) < floorOf(timeoutCall.params.minTimeoutMs)
    /\ floorOf(timeoutCall.params.minTimeoutMs) < timeoutCall.params.baseTimeoutMs

(***************************************************************************)
(* Claims about the TalkStore                                              *)
(***************************************************************************)
\* C4: for every Talk, the talkVersion values of the ChangeEvents a listener
\* receives for that Talk are strictly increasing in delivery order.
C4_VersionsStrictlyIncrease ==
    \A id \in TalkIds :
        \A i, j \in 1..Len(received[id]) :
            i < j => received[id][i].talkVersion < received[id][j].talkVersion

\* a Talk was created, changed and deleted, and the listener saw all of it
C4_Witness ==
    \E id \in TalkIds :
        /\ Len(received[id]) >= 3
        /\ received[id][1].type = "created"
        /\ received[id][Len(received[id])].type = "deleted"

Quiescent(id) == \A op \in BagToSet(fsOps) : op.talkId # id

\* C5: once deleteTalk(id) has returned and no file operation on the Talk's
\* directory is in flight any more, the directory holds no talk.json, so
\* init() of a restarted process does not load the Talk.
C5_DeletedTalkNeverReloaded ==
    \A id \in TalkIds :
        (deleted[id] # NoTalk /\ Quiescent(id))
            => (disk[id] = NoFile /\ loadAllAsync[id] = NoTalk)

Loadable(id) == loadAllAsync[id] # NoTalk

\* C29: after init() completes, no loaded Talk has processing = true, whatever
\* flags were persisted before the restart, and that cleared value is what a
\* further restart reads from disk.
C29_ClearedAndOnDisk ==
    [][Restart =>
           \A id \in TalkIds :
               talks'[id] # NoTalk
                   => /\ ~talks'[id].processing
                      /\ ~disk'[id].processing]_vars

\* when init() completes, no loaded Talk has processing = true in the store,
\* whatever flags were persisted before the restart; talk.json is as the
\* earlier process left it, and for every flag init() cleared a write of
\* talk.json is in flight that init() did not wait for, so a further restart
\* may read the stale flag again, and clears it again.
C29_ClearedInMemoryThenWritten ==
    [][Restart =>
           /\ disk' = disk
           /\ \A id \in TalkIds :
                  talks'[id] # NoTalk
                      => /\ ~talks'[id].processing
                         /\ disk[id].processing => ~Quiescent(id)']_vars

\* init() cleared a stale flag and talk.json still holds processing = true,
\* the write being in flight
C29_Witness ==
    /\ cleared > 0
    /\ \E id \in TalkIds :
           /\ talks[id] # NoTalk /\ ~talks[id].processing
           /\ ~Quiescent(id) /\ Loadable(id)
           /\ loadAllAsync[id].processing

\* C40: once all pending metadata writes of a Talk have completed and no
\* mutation is in progress, talk.json on disk equals the Talk's latest
\* in-memory metadata, whatever order the overlapping fire-and-forget writes
\* finished in; a restart at that point reloads exactly the last state.
C40_QuiescentDiskIsLatest ==
    \A id \in TalkIds :
        (talks[id] # NoTalk /\ Quiescent(id))
            => (disk[id] = talks[id] /\ loadAllAsync[id] = talks[id])

\* all writes of a Talk are done and talk.json holds an earlier version of it
C40_OlderVersionOnDisk ==
    \E id \in TalkIds :
        /\ talks[id] # NoTalk /\ Quiescent(id)
        /\ disk[id] # NoFile /\ disk[id] # NoTalk
        /\ disk[id].talkVersion < talks[id].talkVersion
        /\ loadAllAsync[id] # NoTalk
        /\ loadAllAsync[id].talkVersion < talks[id].talkVersion

(***************************************************************************)
(* The routing header guard, called on bounded inputs                      *)
(***************************************************************************)
STR_x == <<"x">>

AgentIdHeaders == { undefined, <<>>, <<" ">>, <<"a", "1">> }

SessionKeyHeaders ==
    { undefined, <<>>,
      STR_agent_colon \o STR_x,
      <<" ">> \o STR_agent_colon \o STR_x,
      STR_talk_colon \o STR_x,
      STR_job_colon \o STR_x,
      <<"a", "g", "e", "n", "t">>,
      <<"A", "g", "e", "n", "t", ":">> \o STR_x }

GuardParams ==
    [flow : {"talk-chat", "slack-ingress", "job-scheduler"},
     executionMode : {"openclaw", "full_control"},
     headers : [agentId : AgentIdHeaders, sessionKey : SessionKeyHeaders]]

GuardFrame == UNCHANGED <<now, talks, usedIds, received, fsOps, dirs, disk, history,
                          deleted, seenEvents, runtimeCounters, firstAns, rOut,
                          debounceMap, runningTalks, execJobs, starts, proxyReq,
                          forward, llmCalls, slackSends, affinityVars, hostVars, probeVars, execVars, auditVars>>

AssertRoutingHeadersCall ==
    \E params \in GuardParams :
        /\ gIn' = params
        /\ gOut' = assertRoutingHeaders(params)
        /\ GuardFrame

NextGuard == AssertRoutingHeadersCall

SpecGuard == Init /\ [][NextGuard]_vars

GuardCalled == gOut # "none"

AgentIdSet == gIn.headers.agentId # undefined /\ trim(gIn.headers.agentId) # <<>>

SessionKeyHasPrefix(prefix) ==
    /\ gIn.headers.sessionKey # undefined
    /\ startsWith(trim(gIn.headers.sessionKey), prefix)

====
